---- MODULE Spec2Model ----
(***************************************************************************)
(* The client-side data-and-session layer of the todo frontend: the task   *)
(* API client with its single-slot read cache (lib/api.ts), the token      *)
(* endpoint (app/api/token/route.ts), the dashboard page's fetch and       *)
(* logout handlers (app/dashboard/page.tsx) and the auth form with its     *)
(* logout button (components/AuthForm.tsx).                                *)
(*                                                                         *)
(* Every asynchronous function is cut at its awaits.  The code between two *)
(* awaits runs to completion on the event loop, so it is one action.  A    *)
(* request to the remote task store is answered in two steps (the store    *)
(* handles it, the client receives the answer), so that other operations   *)
(* can run while an answer is on its way.                                  *)
(*                                                                         *)
(* Texts (error messages) are sequences of words; String.includes is the   *)
(* search for a contiguous run of words.                                   *)
(***************************************************************************)
EXTENDS Integers, Sequences, FiniteSets, TLC

----------------------------------------------------------------------------
(* Bounds of the model *)

\* operations of the API client that may be in flight together
MaxOps == 1
\* the clock advances in steps of TickMs, MaxTicks times at most
TickMs == 15000
MaxTicks == 2
\* the longest list the dashboard's create form is used on
MaxTasks == 2
\* the largest id the store gives to a task
MaxId == 3

(* Program constants *)
CACHE_TTL == 30000
MinPasswordLength == 8

----------------------------------------------------------------------------
(* Values *)

\* null / undefined of a nullable variable, and a present value
Null == [isNull |-> TRUE]
Some(v) == [isNull |-> FALSE, val |-> v]

Undefined == "undefined"

\* the titles and the task ids of the model
Titles == {"a", "b"}
TaskIds == {1, 2}

\* Task of types/index.ts, cut to the fields the client code reads or compares
Task(i, t, c) == [id |-> i, title |-> t, is_completed |-> c]

\* String.prototype.includes on texts
Includes(text, part) ==
  \E i \in 1..(Len(text) - Len(part) + 1) : SubSeq(text, i, i + Len(part) - 1) = part

MsgNotAuthenticated == <<"Not", "authenticated">>
MsgGeneric == <<"An", "error", "occurred">>
MsgFailedToFetch == <<"Failed", "to", "fetch">>
MsgNoErrorField == <<"Cannot", "read", "properties", "of", "undefined">>
MsgTokenExpired == <<"Token", "has", "expired">>
MsgTaskNotFound == <<"Task", "not", "found">>
MsgUnauthorizedText == <<"UNAUTHORIZED", "request">>

\* the body of a non-success answer: not JSON at all, the ApiError shape, or
\* JSON of another shape (no "error" member)
StructuredBody(code, message, details) ==
  [shape |-> "structured", code |-> code, message |-> message, details |-> details]

ErrorBodies ==
  {[shape |-> "unparsable"],
   [shape |-> "other"],
   StructuredBody("UNAUTHORIZED", MsgTokenExpired, Undefined),
   StructuredBody("UNAUTHORIZED", MsgUnauthorizedText, Undefined),
   StructuredBody("NOT_FOUND", MsgTaskNotFound, Undefined),
   StructuredBody("NOT_FOUND", MsgTaskNotFound, "field")}

\* thrown values
ApiRequestError(code, message, details) ==
  [name |-> "ApiRequestError", code |-> code, message |-> message, details |-> details]
TypeError(message) ==
  [name |-> "TypeError", code |-> Undefined, message |-> message, details |-> Undefined]

----------------------------------------------------------------------------
(* State *)

VARIABLES
  \* lib/api.ts, module state
  tasksCache,       \* Task[] | null
  cacheTimestamp,   \* number | null
  \* the event loop
  now,              \* Date.now()
  ops,              \* the API calls in flight, each at one of its awaits
  issued,           \* the request the latest step sent: "none", "token", "remote"
  returned,         \* what the latest step handed to the caller of an API function
  lastRead,         \* when a list read last returned from the network, null again
                    \* once a mutation returned or a logout cleared the cache since
  \* the session provider
  session,          \* TRUE while the session cookie is valid
  \* app/dashboard/page.tsx, component state
  tasks,            \* useState<Task[]>([])
  isLoading,        \* useState(true)
  isCreating,       \* useState(false)
  error,            \* useState<string | null>(null)
  route,            \* the view the router shows
  sessionState,     \* useSession(): "pending", "ready" (a user) or "absent"
  \* the logout handlers of app/dashboard/page.tsx and components/AuthForm.tsx
  logout,           \* per entry point: where its handleLogout is, and what it did
  \* components/AuthForm.tsx, one AuthForm instance
  authMode,         \* the mode prop: "login" or "signup"
  email,            \* useState("")
  password,         \* useState("")
  authError,        \* useState<string | null>(null)
  loading,          \* useState(false)
  submittingRef,    \* useRef(false).current
  signing,          \* signIn.email / signUp.email requests in flight
  verifying,        \* handleSubmit invocations awaiting verifyAuthenticatedSession
  authEvent,        \* what the latest step of the form was
  \* components/TaskForm.tsx, one TaskForm instance
  formTitle,        \* useState(""), the title field
  formDescription,  \* useState(""), the description field
  formError,        \* useState<string | null>(null)
  formSubmitting,   \* TRUE while handleSubmit awaits onSubmit
  \* components/TaskItem.tsx, one TaskItem instance
  isEditing,        \* useState(false)
  editTitle,        \* useState(task.title)
  editDescription,  \* useState(task.description ?? "")
  itemIsLoading,    \* useState(false), the item's isLoading
  itemError,        \* useState<string | null>(null), the item's error
  itemInFlight,     \* the callbacks the item awaits: "update", "delete", "toggle"
  itemMounted,      \* TRUE while the list renders the item
  itemCompleted,    \* task.is_completed of the task prop
  formEvent,        \* what the latest step of the two components handed to its callback
  \* the remote task store, as far as the client can observe it
  store,            \* the tasks of the user, newest first
  nextId,           \* the id the store gives to the next task it creates
  answers           \* per call in flight: the answer of the store on its way back

apiVars == <<tasksCache, cacheTimestamp, ops, issued, returned, lastRead>>
dashVars == <<tasks, isLoading, isCreating, error, route>>
authVars == <<authMode, email, password, authError, loading, submittingRef, signing,
              verifying, authEvent>>
formVars == <<formTitle, formDescription, formError, formSubmitting, isEditing,
              editTitle, editDescription, itemIsLoading, itemError, formEvent>>
storeVars == <<store, nextId, answers>>
itemVars == <<itemInFlight, itemMounted, itemCompleted>>
vars == <<tasksCache, cacheTimestamp, now, ops, issued, returned, lastRead,
          session, tasks, isLoading, isCreating, error, route, sessionState,
          logout,
          authMode, email, password, authError, loading, submittingRef, signing,
          verifying, authEvent,
          formTitle, formDescription, formError, formSubmitting, isEditing,
          editTitle, editDescription, itemIsLoading, itemError, formEvent,
          store, nextId, answers,
          itemInFlight, itemMounted, itemCompleted>>

Idle == [pc |-> "idle"]
NoReturn == [none |-> TRUE]

\* a call that goes to the store at once, with a token it did not ask for
OpWithoutTokenRequest(caller, kind, id, title) ==
  [caller |-> caller, kind |-> kind, id |-> id, title |-> title, pc |-> "remote"]

\* an API call in flight: pc is "token" (awaiting getAuthToken) or "remote"
\* (awaiting the fetch of the store)
Op(caller, kind, id, title) ==
  [caller |-> caller, kind |-> kind, id |-> id, title |-> title, pc |-> "token"]

Mutations == {"create", "update", "delete", "complete", "uncomplete"}

\* a call of a function of lib/api.ts: getTasks(force), createTask({title}),
\* updateTask(id, {title}), deleteTask(id), completeTask(id), uncompleteTask(id)
Call(kind, force, id, title) == [kind |-> kind, force |-> force, id |-> id, title |-> title]

\* the calls a client of lib/api.ts makes: each function once, getTasks both ways
Calls ==
  {Call("list", FALSE, 0, "-"), Call("list", TRUE, 0, "-"),
   Call("create", FALSE, 0, "a"),
   Call("update", FALSE, 1, "b"),
   Call("delete", FALSE, 2, "-"),
   Call("complete", FALSE, 1, "-"),
   Call("uncomplete", FALSE, 2, "-")}

FreeSlots == {s \in DOMAIN ops : ops[s] = Idle}
FreeSlot == CHOOSE s \in FreeSlots : \A t \in FreeSlots : s <= t

----------------------------------------------------------------------------
(* lib/api.ts *)

\* JavaScript's !x for the two cache variables: null is falsy, so is the number 0;
\* an array, even an empty one, is truthy
FalsyTasks(c) == c.isNull
FalsyNumber(c) == c.isNull \/ c.val = 0

isCacheValid ==
  IF FalsyTasks(tasksCache) \/ FalsyNumber(cacheTimestamp)
  THEN FALSE
  ELSE now - cacheTimestamp.val < CACHE_TTL

\* a clearApiCache that forgets the timestamp
clearApiCacheEntryOnly ==
  /\ tasksCache' = Null
  /\ UNCHANGED cacheTimestamp

clearApiCache ==
  /\ tasksCache' = Null
  /\ cacheTimestamp' = Null

\* what fetch("/api/token") can come back with
TokenOk(token) ==
  [kind |-> "http", ok |-> TRUE, status |-> 200, parses |-> TRUE, token |-> token]
TokenHttpError(status) ==
  [kind |-> "http", ok |-> FALSE, status |-> status, parses |-> TRUE, token |-> Undefined]
TokenNetworkFailure ==
  [kind |-> "rejected", ok |-> FALSE, status |-> 0, parses |-> FALSE, token |-> Undefined]
\* a success status with a body that response.json() rejects
TokenUnparsable ==
  [kind |-> "http", ok |-> TRUE, status |-> 200, parses |-> FALSE, token |-> Undefined]

\* app/api/token/route.ts GET: 401 without a session user, a signed token with one,
\* 500 when signing throws
TokenRoute(hasSessionUser, signingThrows) ==
  IF ~hasSessionUser THEN TokenHttpError(401)
  ELSE IF signingThrows THEN TokenHttpError(500)
  ELSE TokenOk("jwt")

\* the answers the token request of one call can get now
TokenAnswers ==
  {TokenRoute(session, t) : t \in BOOLEAN}
    \cup {TokenNetworkFailure, TokenOk(Undefined), TokenUnparsable}

\* how a run of getAuthToken ends: it raises, or it returns a token or null
TokenAttempt(raised, value) == [raised |-> raised, value |-> value]

\* the try block of getAuthToken: a rejected fetch and a rejected response.json()
\* raise inside it
getAuthTokenTry(answer) ==
  IF answer.kind = "rejected" THEN TokenAttempt(TRUE, Null)
  ELSE IF ~answer.ok THEN TokenAttempt(FALSE, Null)
  ELSE IF ~answer.parses THEN TokenAttempt(TRUE, Null)
  ELSE IF answer.token = Undefined THEN TokenAttempt(FALSE, Null)
  ELSE TokenAttempt(FALSE, Some(answer.token))

\* a getAuthToken without its catch block
getAuthTokenNoCatch(attempt) == attempt

\* the catch block of getAuthToken: catch { return null }
getAuthTokenCatch(attempt) ==
  IF attempt.raised THEN TokenAttempt(FALSE, Null) ELSE attempt

getAuthTokenSettles(answer) == getAuthTokenCatch(getAuthTokenTry(answer))

\* the value apiRequest's await of getAuthToken gives
getAuthToken(answer) == getAuthTokenSettles(answer).value

\* an ErrorForBody that does not pass the details on
ErrorForBodyNoDetails(body) ==
  IF body.shape = "unparsable"
  THEN ApiRequestError("UNKNOWN", MsgGeneric, Undefined)
  ELSE IF body.shape = "structured"
  THEN ApiRequestError(body.code, body.message, Undefined)
  ELSE TypeError(MsgNoErrorField)

\* the error apiRequest throws for a non-success answer with the given body
ErrorForBody(body) ==
  IF body.shape = "unparsable"
  THEN ApiRequestError("UNKNOWN", MsgGeneric, Undefined)
  ELSE IF body.shape = "structured"
  THEN ApiRequestError(body.code, body.message, body.details)
  ELSE TypeError(MsgNoErrorField)

\* results: a thrown error, or a value (undefined, a Task, a Task[])
NoError == [name |-> "none"]
NoValue == [kind |-> "undefined"]
TaskValue(t) == [kind |-> "task", task |-> t]
ListValue(l) == [kind |-> "list", list |-> l]
Thrown(err) == [outcome |-> "throw", err |-> err, value |-> NoValue]
Value(v) == [outcome |-> "ok", err |-> NoError, value |-> v]

\* what fetch(url) of the store can settle with
HttpOk(status, body) == [kind |-> "http", ok |-> TRUE, status |-> status, body |-> body]
HttpError(body) == [kind |-> "http", ok |-> FALSE, status |-> 400, body |-> body]
FetchRejected == [kind |-> "rejected", ok |-> FALSE, status |-> 0, body |-> NoValue]

\* apiRequest after its fetch of the store settled
apiRequestResult(resp) ==
  IF resp.kind = "rejected" THEN Thrown(TypeError(MsgFailedToFetch))
  ELSE IF ~resp.ok THEN Thrown(ErrorForBody(resp.body))
  ELSE IF resp.status = 204 THEN Value(NoValue)
  ELSE Value(resp.body)

\* a getTasksFromCache that tests forceRefresh the wrong way round
getTasksFromCacheInverted(forceRefresh) == forceRefresh /\ isCacheValid

\* getTasks, up to its await: TRUE when it returns tasksCache without a request
getTasksFromCache(forceRefresh) == ~forceRefresh /\ isCacheValid

\* a getTasksReturn that keeps the timestamp of an entry it replaces
getTasksReturnKeepsTimestamp(result) ==
  IF result.outcome = "throw"
  THEN UNCHANGED <<tasksCache, cacheTimestamp>>
  ELSE /\ tasksCache' = Some(result.value.list)
       /\ cacheTimestamp' = IF cacheTimestamp.isNull THEN Some(now) ELSE cacheTimestamp

\* a getTasksReturn that drops the entry when the read failed
getTasksReturnClearsOnFailure(result) ==
  IF result.outcome = "throw"
  THEN clearApiCache
  ELSE /\ tasksCache' = Some(result.value.list)
       /\ cacheTimestamp' = Some(now)

\* a getTasksReturn that stores the list and leaves the timestamp alone
getTasksReturnSnapshotOnly(result) ==
  IF result.outcome = "throw"
  THEN UNCHANGED <<tasksCache, cacheTimestamp>>
  ELSE /\ tasksCache' = Some(result.value.list)
       /\ UNCHANGED cacheTimestamp

\* getTasks after apiRequest settled
getTasksReturn(result) ==
  IF result.outcome = "throw"
  THEN UNCHANGED <<tasksCache, cacheTimestamp>>
  ELSE /\ tasksCache' = Some(result.value.list)
       /\ cacheTimestamp' = Some(now)

\* a mutationReturn in which deleteTask does not clear the cache
mutationReturnDeleteKeepsCache(kind, result) ==
  IF result.outcome = "throw" \/ kind = "delete"
  THEN UNCHANGED <<tasksCache, cacheTimestamp>>
  ELSE clearApiCache

\* a mutationReturn in which createTask puts the new task into the cached list
mutationReturnPatchesCache(kind, result) ==
  IF result.outcome = "throw"
  THEN UNCHANGED <<tasksCache, cacheTimestamp>>
  ELSE IF kind = "create" /\ ~tasksCache.isNull
  THEN /\ tasksCache' = Some(<<result.value.task>> \o tasksCache.val)
       /\ UNCHANGED cacheTimestamp
  ELSE clearApiCache

\* createTask, updateTask, deleteTask, completeTask, uncompleteTask after
\* apiRequest settled
mutationReturn(kind, result) ==
  IF result.outcome = "throw"
  THEN UNCHANGED <<tasksCache, cacheTimestamp>>
  ELSE clearApiCache

\* what the API function hands to its caller: deleteTask drops apiRequest's value
ApiResult(kind, result) ==
  IF result.outcome = "ok" /\ kind = "delete" THEN Value(NoValue) ELSE result

\* the handlers of the dashboard page that call a mutation of lib/api.ts
Handlers ==
  {"handleCreateTask", "handleUpdateTask", "handleDeleteTask", "handleToggleComplete"}

\* toast.success(text), toast.error(text)
Toast(level, text) == [level |-> level, text |-> text]

\* the text of the success notification of a handler, by the API function it called
SuccessText(kind) ==
  CASE kind = "create" -> <<"Task", "created", "successfully">>
    [] kind = "update" -> <<"Task", "updated", "successfully">>
    [] kind = "delete" -> <<"Task", "deleted", "successfully">>
    [] kind = "complete" -> <<"Task", "marked", "as", "complete">>
    [] kind = "uncomplete" -> <<"Task", "marked", "as", "incomplete">>

\* the notifications the caller emits when the API function it awaits settles
Toasts(caller, kind, result) ==
  IF caller \notin Handlers THEN <<>>
  ELSE IF result.outcome = "ok" THEN <<Toast("success", SuccessText(kind))>>
  ELSE <<Toast("error", result.err.message)>>

\* how the caller itself ends when the API function it awaits settles: the four
\* handlers re-throw the error they caught (throw err), every other caller ends
\* without a value
CallerResult(caller, result) ==
  IF caller \in Handlers /\ result.outcome = "throw"
  THEN Thrown(result.err)
  ELSE Value(NoValue)

\* the record of a return: who called what, the result, whether getTasks answered
\* from the cache, whether the cache held an entry when the function returned to
\* its own code after the await, the notifications the caller emitted on it, and
\* how the caller ended
Return(caller, kind, result, fromCache) ==
  [caller |-> caller, kind |-> kind, outcome |-> result.outcome, err |-> result.err,
   value |-> result.value, fromCache |-> fromCache, hadCache |-> ~tasksCache.isNull,
   toasts |-> Toasts(caller, kind, result), handed |-> CallerResult(caller, result)]

----------------------------------------------------------------------------
(* app/dashboard/page.tsx *)

\* the test of fetchTasks' catch block for an authentication error
IsAuthMessage(message) ==
  Includes(message, <<"UNAUTHORIZED">>) \/ Includes(message, <<"Not", "authenticated">>)

\* a fetchTasksSettled that goes to the login view on every error
fetchTasksSettledAlwaysRedirects(result) ==
  /\ isLoading' = FALSE
  /\ UNCHANGED isCreating
  /\ IF result.outcome = "ok"
     THEN /\ tasks' = result.value.list
          /\ UNCHANGED <<error, route>>
     ELSE /\ route' = "login"
          /\ UNCHANGED <<tasks, error>>

\* a fetchTasksSettled that resets isLoading at the end of its try
fetchTasksSettledWithoutFinally(result) ==
  /\ isLoading' = IF result.outcome = "ok" THEN FALSE ELSE isLoading
  /\ UNCHANGED isCreating
  /\ IF result.outcome = "ok"
     THEN /\ tasks' = result.value.list
          /\ UNCHANGED <<error, route>>
     ELSE IF IsAuthMessage(result.err.message)
     THEN /\ route' = "login"
          /\ UNCHANGED <<tasks, error>>
     ELSE /\ error' = Some(result.err.message)
          /\ UNCHANGED <<tasks, route>>

\* fetchTasks after getTasks(true) settled: try's tail, catch, finally
fetchTasksSettled(result) ==
  /\ isLoading' = FALSE
  /\ UNCHANGED isCreating
  /\ IF result.outcome = "ok"
     THEN /\ tasks' = result.value.list
          /\ UNCHANGED <<error, route>>
     ELSE IF IsAuthMessage(result.err.message)
     THEN /\ route' = "login"
          /\ UNCHANGED <<tasks, error>>
     ELSE /\ error' = Some(result.err.message)
          /\ UNCHANGED <<tasks, route>>

\* a Prepend that puts the new task last
PrependAtEnd(newTask, prev) == Append(prev, newTask)

\* setTasks((prev) => [newTask, ...prev])
Prepend(newTask, prev) == <<newTask>> \o prev

\* a ReplaceById that takes the title of the answer and keeps the rest of its own
ReplaceByIdLocally(prev, taskId, updatedTask) ==
  [i \in DOMAIN prev |->
     IF prev[i].id = taskId THEN [prev[i] EXCEPT !.title = updatedTask.title] ELSE prev[i]]

\* a ReplaceById that puts the answer in front of a list that lacks the task
ReplaceByIdOrInsert(prev, taskId, updatedTask) ==
  IF \E i \in DOMAIN prev : prev[i].id = taskId
  THEN [i \in DOMAIN prev |-> IF prev[i].id = taskId THEN updatedTask ELSE prev[i]]
  ELSE <<updatedTask>> \o prev

\* prev.map((t) => (t.id === taskId ? updatedTask : t))
ReplaceById(prev, taskId, updatedTask) ==
  [i \in DOMAIN prev |-> IF prev[i].id = taskId THEN updatedTask ELSE prev[i]]

\* a RemoveById whose filter drops the first element with it
DropsFirstToo(prev, taskId, t) == t.id # taskId /\ t # Head(prev)
RemoveByIdAndHead(prev, taskId) == SelectSeq(prev, LAMBDA t : DropsFirstToo(prev, taskId, t))

\* prev.filter((t) => t.id !== taskId)
KeepsOtherIds(taskId, t) == t.id # taskId
RemoveById(prev, taskId) == SelectSeq(prev, LAMBDA t : KeepsOtherIds(taskId, t))

\* a tasksAfter that keeps the list as it is when an update returned
tasksAfterDropsUpdate(o, result) ==
  CASE o.kind = "create" -> Prepend(result.value.task, tasks)
    [] o.kind = "delete" -> RemoveById(tasks, o.id)
    [] o.kind = "update" -> tasks
    [] OTHER -> ReplaceById(tasks, o.id, result.value.task)

\* the list a handler sets when the mutation it awaited returned
tasksAfter(o, result) ==
  CASE o.kind = "create" -> Prepend(result.value.task, tasks)
    [] o.kind = "delete" -> RemoveById(tasks, o.id)
    [] OTHER -> ReplaceById(tasks, o.id, result.value.task)

\* a handlerSettled that takes the task out of the list when its delete failed
handlerSettledRemovesAnyway(o, result) ==
  /\ tasks' = IF result.outcome = "ok" THEN tasksAfter(o, result)
              ELSE IF o.kind = "delete" THEN RemoveById(tasks, o.id)
              ELSE tasks
  /\ isCreating' = IF o.caller = "handleCreateTask" THEN FALSE ELSE isCreating
  /\ UNCHANGED <<isLoading, error, route>>

\* handleCreateTask, handleUpdateTask, handleDeleteTask, handleToggleComplete after
\* the mutation settled: setTasks on success, nothing on failure (the toast and the
\* re-throw change no state of the page), and handleCreateTask's finally
handlerSettled(o, result) ==
  /\ tasks' = IF result.outcome = "ok" THEN tasksAfter(o, result) ELSE tasks
  /\ isCreating' = IF o.caller = "handleCreateTask" THEN FALSE ELSE isCreating
  /\ UNCHANGED <<isLoading, error, route>>

\* the code of the caller that runs when the API function of call o, which it
\* awaits, settles; a page that is no longer shown sets no state
Continue(o, result) ==
  IF route # "dashboard" THEN UNCHANGED dashVars
  ELSE IF o.caller = "fetchTasks" THEN fetchTasksSettled(result)
  ELSE IF o.caller \in Handlers THEN handlerSettled(o, result)
  ELSE UNCHANGED dashVars

----------------------------------------------------------------------------
(* The steps of an API call *)

\* a Settle that sends a failed call through apiRequest once more
SettleRetries(s, result) ==
  LET o == ops[s]
      r == ApiResult(o.kind, result)
  IN IF result.outcome = "throw" /\ o.pc = "remote"
     THEN /\ ops' = [ops EXCEPT ![s].pc = "token"]
          /\ returned' = NoReturn
          /\ UNCHANGED <<tasksCache, cacheTimestamp, lastRead, dashVars>>
     ELSE /\ IF o.kind = "list" THEN getTasksReturn(result) ELSE mutationReturn(o.kind, result)
          /\ ops' = [ops EXCEPT ![s] = Idle]
          /\ returned' = Return(o.caller, o.kind, r, FALSE)
          /\ lastRead' = IF result.outcome = "throw" THEN lastRead
                         ELSE IF o.kind = "list" THEN Some(now) ELSE Null
          /\ Continue(o, r)

\* the call in slot s settles: the API function's tail, then its caller's
Settle(s, result) ==
  LET o == ops[s]
      r == ApiResult(o.kind, result)
  IN /\ IF o.kind = "list" THEN getTasksReturn(result) ELSE mutationReturn(o.kind, result)
     /\ ops' = [ops EXCEPT ![s] = Idle]
     /\ returned' = Return(o.caller, o.kind, r, FALSE)
     /\ lastRead' = IF result.outcome = "throw" THEN lastRead
                    ELSE IF o.kind = "list" THEN Some(now) ELSE Null
     /\ Continue(o, r)

\* an API function is called: getTasks may answer from the cache, every other call
\* runs up to apiRequest's await of getAuthToken, whose fetch is sent
StartCall(caller, c) ==
  /\ FreeSlots # {}
  /\ ops' = [ops EXCEPT ![FreeSlot] = Op(caller, c.kind, c.id, c.title)]
  /\ issued' = "token"
  /\ returned' = NoReturn
  /\ UNCHANGED <<tasksCache, cacheTimestamp, lastRead>>

\* a client of lib/api.ts other than the dashboard calls one of its functions
ApiCall(c) ==
  /\ IF c.kind = "list" /\ getTasksFromCache(c.force)
     THEN /\ returned' = Return("api", "list", Value(ListValue(tasksCache.val)), TRUE)
          /\ issued' = "none"
          /\ UNCHANGED <<tasksCache, cacheTimestamp, ops, lastRead>>
     ELSE StartCall("api", c)
  /\ UNCHANGED <<now, session, dashVars, sessionState, logout, authVars, formVars, storeVars, itemVars>>

\* a TokenMissing that lets apiRequest go on without a token
TokenMissingNever(token) == FALSE

\* apiRequest's test of the token it awaited: if (!token) throw ...
TokenMissing(token) == token.isNull

\* the token request of the call in slot s settles with the given answer: apiRequest
\* throws without a token, and sends its request to the store with one; it awaits
\* getAuthToken outside any try, so what getAuthToken raised would reach the caller
TokenResponse(s, answer) ==
  /\ ops[s].pc = "token"
  /\ answer \in TokenAnswers
  /\ IF getAuthTokenSettles(answer).raised
     THEN /\ Settle(s, Thrown(TypeError(MsgFailedToFetch)))
          /\ issued' = "none"
     ELSE IF TokenMissing(getAuthToken(answer))
     THEN /\ Settle(s, Thrown(ApiRequestError("UNAUTHORIZED", MsgNotAuthenticated, Undefined)))
          /\ issued' = "none"
     ELSE /\ ops' = [ops EXCEPT ![s].pc = "remote"]
          /\ issued' = "remote"
          /\ returned' = NoReturn
          /\ UNCHANGED <<tasksCache, cacheTimestamp, lastRead, dashVars>>
  /\ UNCHANGED <<now, session, sessionState, logout, authVars, formVars, storeVars, itemVars>>

\* a client of lib/api.ts calls clearApiCache(): it returns nothing
ClearCacheCall ==
  /\ clearApiCache
  /\ lastRead' = Null
  /\ returned' = Return("api", "clear", Value(NoValue), FALSE)
  /\ issued' = "none"
  /\ UNCHANGED <<ops, now, session, dashVars, sessionState, logout, authVars, formVars, storeVars, itemVars>>

\* the Task[] values the store answers a list request with: newest first
TaskLists ==
  {<<>>, <<Task(1, "a", FALSE)>>, <<Task(2, "b", FALSE), Task(1, "a", TRUE)>>}

\* the success answers the store can give to the request of a call (section 6 of
\* the specification: List 200 Task[], Create 201 Task, Update 200 Task, Delete 204,
\* Complete/Uncomplete 200 Task)
StoreAnswers(o) ==
  IF o.pc # "remote" THEN {} ELSE
  CASE o.kind = "list" -> {HttpOk(200, ListValue(l)) : l \in TaskLists}
    [] o.kind = "create" ->
         {HttpOk(201, TaskValue(Task(i, o.title, FALSE))) : i \in TaskIds}
    [] o.kind = "update" ->
         {HttpOk(200, TaskValue(Task(o.id, o.title, c))) : c \in BOOLEAN}
    [] o.kind = "delete" -> {HttpOk(204, NoValue)}
    [] o.kind \in {"complete", "uncomplete"} ->
         {HttpOk(200, TaskValue(Task(o.id, t, o.kind = "complete"))) : t \in Titles}

\* the store answers the request of slot s with success and the answer reaches
\* the client
ReceiveSuccess(s, resp) ==
  /\ ops[s].pc = "remote"
  /\ resp \in StoreAnswers(ops[s])
  /\ Settle(s, apiRequestResult(resp))
  /\ issued' = "none"
  /\ UNCHANGED <<now, session, sessionState, logout, authVars, formVars, storeVars, itemVars>>

\* the store answers the request of slot s with a non-success status
ReceiveFailure(s, body) ==
  /\ ops[s].pc = "remote"
  /\ body \in ErrorBodies
  /\ Settle(s, apiRequestResult(HttpError(body)))
  /\ issued' = "none"
  /\ UNCHANGED <<now, session, sessionState, logout, authVars, formVars, storeVars, itemVars>>

\* the fetch of the store is rejected (network unreachable)
NetworkFailure(s) ==
  /\ ops[s].pc = "remote"
  /\ Settle(s, apiRequestResult(FetchRejected))
  /\ issued' = "none"
  /\ UNCHANGED <<now, session, sessionState, logout, authVars, formVars, storeVars, itemVars>>

\* time passes
Tick ==
  /\ now < TickMs * (MaxTicks + 1)
  /\ now' = now + TickMs
  /\ issued' = "none"
  /\ returned' = NoReturn
  /\ UNCHANGED <<tasksCache, cacheTimestamp, lastRead, ops, session, dashVars, sessionState,
                 logout, authVars, formVars, storeVars, itemVars>>

\* the session cookie expires or is revoked
SessionExpires ==
  /\ session
  /\ session' = FALSE
  /\ issued' = "none"
  /\ returned' = NoReturn
  /\ UNCHANGED <<tasksCache, cacheTimestamp, lastRead, now, ops, dashVars, sessionState,
                 logout, authVars, formVars, storeVars, itemVars>>

----------------------------------------------------------------------------
(* The remote task store behind the endpoints lib/api.ts calls *)

\* no answer of the store is on its way to a call
NoAnswer == [kind |-> "none"]

HasTask(list, taskId) == \E i \in DOMAIN list : list[i].id = taskId
TaskOf(list, taskId) == list[CHOOSE i \in DOMAIN list : list[i].id = taskId]

\* PATCH /tasks/{id} with a title; POST and DELETE /tasks/{id}/complete
StoreUpdated(o, t) ==
  CASE o.kind = "update" -> [t EXCEPT !.title = o.title]
    [] o.kind = "complete" -> [t EXCEPT !.is_completed = TRUE]
    [] o.kind = "uncomplete" -> [t EXCEPT !.is_completed = FALSE]

\* the tasks the store holds after it handled the request of call o
StoreAfter(o) ==
  CASE o.kind = "list" -> store
    [] o.kind = "create" -> <<Task(nextId, o.title, FALSE)>> \o store
    [] o.kind = "delete" -> SelectSeq(store, LAMBDA t : t.id # o.id)
    [] OTHER -> [i \in DOMAIN store |->
                   IF store[i].id = o.id THEN StoreUpdated(o, store[i]) ELSE store[i]]

\* the answer of the store to the request of call o: List 200 Task[], Create 201
\* Task, Update and Complete/Uncomplete 200 Task, Delete 204, and NOT_FOUND for
\* a task it does not hold
StoreAnswer(o) ==
  CASE o.kind = "list" -> HttpOk(200, ListValue(store))
    [] o.kind = "create" -> HttpOk(201, TaskValue(Task(nextId, o.title, FALSE)))
    [] ~HasTask(store, o.id) ->
         HttpError(StructuredBody("NOT_FOUND", MsgTaskNotFound, Undefined))
    [] o.kind = "delete" -> HttpOk(204, NoValue)
    [] OTHER -> HttpOk(200, TaskValue(StoreUpdated(o, TaskOf(store, o.id))))

\* the store handles the request of the call in slot s; its answer is on its way
StoreServes(s) ==
  /\ ops[s] # Idle
  /\ ops[s].pc = "remote"
  /\ answers[s] = NoAnswer
  /\ ops[s].kind = "create" => nextId <= MaxId
  /\ store' = StoreAfter(ops[s])
  /\ nextId' = IF ops[s].kind = "create" THEN nextId + 1 ELSE nextId
  /\ answers' = [answers EXCEPT ![s] = StoreAnswer(ops[s])]
  /\ issued' = "none"
  /\ returned' = NoReturn
  /\ UNCHANGED <<tasksCache, cacheTimestamp, lastRead, ops, now, session, dashVars,
                 sessionState, logout, authVars, formVars, itemVars>>

\* the answer of the store reaches the call in slot s: apiRequest goes on
AnswerArrives(s) ==
  /\ answers[s] # NoAnswer
  /\ Settle(s, apiRequestResult(answers[s]))
  /\ answers' = [answers EXCEPT ![s] = NoAnswer]
  /\ issued' = "none"
  /\ UNCHANGED <<store, nextId>>
  /\ UNCHANGED <<now, session, sessionState, logout, authVars, formVars, itemVars>>

----------------------------------------------------------------------------
(* The dashboard's fetch *)

\* fetchTasks up to its await: setError(null), getTasks(true)
fetchTasks ==
  /\ error' = Null
  /\ StartCall("fetchTasks", Call("list", TRUE, 0, "-"))
  /\ UNCHANGED <<tasks, isLoading, isCreating, route>>

\* the mount effect without its test of isSessionLoading
MountEffectIgnoresPending(isSessionLoading, hasUser) ==
  IF ~hasUser
  THEN /\ route' = "login"
       /\ issued' = "none"
       /\ returned' = NoReturn
       /\ UNCHANGED <<tasksCache, cacheTimestamp, lastRead, ops, tasks, isLoading, isCreating,
                      error>>
  ELSE fetchTasks

\* the body of the mount effect: nothing while the session is loading,
\* router.push("/login") without a user, fetchTasks() with one
MountEffect(isSessionLoading, hasUser) ==
  IF isSessionLoading
  THEN /\ issued' = "none"
       /\ returned' = NoReturn
       /\ UNCHANGED <<tasksCache, cacheTimestamp, lastRead, ops, dashVars>>
  ELSE IF ~hasUser
  THEN /\ route' = "login"
       /\ issued' = "none"
       /\ returned' = NoReturn
       /\ UNCHANGED <<tasksCache, cacheTimestamp, lastRead, ops, tasks, isLoading, isCreating,
                      error>>
  ELSE fetchTasks

\* useSession() delivers a value (isPending, or the session as it is now) to the
\* mounted page, which renders and runs its mount effect with it
SessionDelivered(isPending) ==
  /\ route = "dashboard"
  /\ isPending => sessionState = "pending"
  /\ sessionState' = IF isPending THEN "pending" ELSE IF session THEN "ready" ELSE "absent"
  /\ MountEffect(isPending, session)
  /\ UNCHANGED <<now, session, logout, authVars, formVars, storeVars, itemVars>>

\* the "Try again" button of the error banner: onClick={fetchTasks}
TryAgain ==
  /\ route = "dashboard"
  /\ sessionState = "ready"
  /\ ~error.isNull
  /\ fetchTasks
  /\ UNCHANGED <<now, session, sessionState, logout, authVars, formVars, storeVars, itemVars>>

----------------------------------------------------------------------------
(* The dashboard's handlers of TaskForm and TaskItem *)

\* the handlers run on the rendered page
PageShown == route = "dashboard" /\ sessionState = "ready"
InList(taskId) == \E i \in DOMAIN tasks : tasks[i].id = taskId

\* handleCreateTask(data) up to its await: setIsCreating(true), setError(null),
\* createTask(data)
handleCreateTask(title) ==
  /\ PageShown
  /\ Len(tasks) < MaxTasks
  /\ isCreating' = TRUE
  /\ error' = Null
  /\ StartCall("handleCreateTask", Call("create", FALSE, 0, title))
  /\ UNCHANGED <<tasks, isLoading, route>>
  /\ UNCHANGED <<now, session, sessionState, logout, authVars, formVars, storeVars, itemVars>>

\* handleUpdateTask(taskId, data) up to its await, called by the TaskItem of a task
\* of the list
handleUpdateTask(taskId, title) ==
  /\ PageShown
  /\ InList(taskId)
  /\ StartCall("handleUpdateTask", Call("update", FALSE, taskId, title))
  /\ UNCHANGED <<now, session, dashVars, sessionState, logout, authVars, formVars, storeVars, itemVars>>

\* handleDeleteTask(taskId) up to its await
handleDeleteTask(taskId) ==
  /\ PageShown
  /\ InList(taskId)
  /\ StartCall("handleDeleteTask", Call("delete", FALSE, taskId, "-"))
  /\ UNCHANGED <<now, session, dashVars, sessionState, logout, authVars, formVars, storeVars, itemVars>>

\* handleToggleComplete(taskId, isCompleted) up to its await: completeTask or
\* uncompleteTask
handleToggleComplete(taskId, isCompleted) ==
  /\ PageShown
  /\ \E i \in DOMAIN tasks : tasks[i].id = taskId /\ isCompleted = ~tasks[i].is_completed
  /\ StartCall("handleToggleComplete",
               Call(IF isCompleted THEN "complete" ELSE "uncomplete", FALSE, taskId, "-"))
  /\ UNCHANGED <<now, session, dashVars, sessionState, logout, authVars, formVars, storeVars, itemVars>>

----------------------------------------------------------------------------
(* Logout: handleLogout of the dashboard page, handleLogout of LogoutButton *)

LogoutEntryPoints == {"dashboard", "button"}

\* what a handleLogout did so far, in order: "cache" (clearApiCache), "session" (the
\* session provider ended the session on its signOut request), "nav"
\* (router.push("/login"))
Did(e, what) == Append(logout[e].did, what)

\* the dashboard's handleLogout up to its await: clearApiCache(), signOut()
DashboardLogout ==
  /\ route = "dashboard"
  /\ sessionState = "ready"
  /\ logout["dashboard"].pc \in {"idle", "done", "failed"}
  /\ clearApiCache
  /\ lastRead' = Null
  /\ logout' = [logout EXCEPT !["dashboard"] = [pc |-> "signOut", did |-> <<"cache">>]]
  /\ issued' = "none"
  /\ returned' = NoReturn
  /\ UNCHANGED <<now, ops, session, dashVars, sessionState, authVars, formVars, storeVars, itemVars>>

\* LogoutButton's handleLogout up to its await: setLoading(true), signOut()
ButtonLogout ==
  /\ logout["button"].pc \in {"idle", "done"}
  /\ logout' = [logout EXCEPT !["button"] = [pc |-> "signOut", did |-> <<>>]]
  /\ issued' = "none"
  /\ returned' = NoReturn
  /\ UNCHANGED <<tasksCache, cacheTimestamp, lastRead, now, ops, session, dashVars,
                 sessionState, authVars, formVars, storeVars, itemVars>>

\* the session provider carries out the signOut request of entry point e
ProviderEndsSession(e) ==
  /\ logout[e].pc = "signOut"
  /\ session' = FALSE
  /\ logout' = [logout EXCEPT ![e] = [pc |-> "ended", did |-> Did(e, "session")]]
  /\ issued' = "none"
  /\ returned' = NoReturn
  /\ UNCHANGED <<tasksCache, cacheTimestamp, lastRead, now, ops, dashVars, sessionState,
                 authVars, formVars, storeVars, itemVars>>

\* the dashboard's handleLogout after signOut() resolved, or after it rejected: the
\* handler has no try block, a rejection ends it
DashboardLogoutSettled(resolved) ==
  IF resolved
  THEN /\ route' = "login"
       /\ logout' = [logout EXCEPT !["dashboard"] =
                       [pc |-> "done", did |-> Did("dashboard", "nav")]]
  ELSE /\ logout' = [logout EXCEPT !["dashboard"].pc = "failed"]
       /\ UNCHANGED route

\* LogoutButton's handleLogout after signOut() resolved, or after it rejected: the
\* try's tail and the catch block do the same, finally resets loading
ButtonLogoutSettled(resolved) ==
  /\ route' = "login"
  /\ logout' = [logout EXCEPT !["button"] =
                  [pc |-> "done", did |-> Did("button", "cache") \o <<"nav">>]]

\* what is left of clearApiCache() for the handler of entry point e when its
\* signOut() settles
SettledCache(e, resolved) ==
  IF e = "button"
  THEN clearApiCache /\ lastRead' = Null
  ELSE UNCHANGED <<tasksCache, cacheTimestamp, lastRead>>

\* signOut() of entry point e resolves: the provider has ended the session
SignOutResolves(e) ==
  /\ logout[e].pc = "ended"
  /\ IF e = "dashboard" THEN DashboardLogoutSettled(TRUE) ELSE ButtonLogoutSettled(TRUE)
  /\ SettledCache(e, TRUE)
  /\ issued' = "none"
  /\ returned' = NoReturn
  /\ UNCHANGED <<now, ops, session, tasks, isLoading, isCreating, error, sessionState,
                 authVars, formVars, storeVars, itemVars>>

\* signOut() of entry point e rejects: the request did not reach the provider, or
\* its answer did not reach the client
SignOutRejects(e) ==
  /\ logout[e].pc \in {"signOut", "ended"}
  /\ IF e = "dashboard" THEN DashboardLogoutSettled(FALSE) ELSE ButtonLogoutSettled(FALSE)
  /\ SettledCache(e, FALSE)
  /\ issued' = "none"
  /\ returned' = NoReturn
  /\ UNCHANGED <<now, ops, session, tasks, isLoading, isCreating, error, sessionState,
                 authVars, formVars, storeVars, itemVars>>

----------------------------------------------------------------------------
(* components/AuthForm.tsx: AuthForm *)

\* texts of the two inputs are sequences of characters
Chars(n) == [i \in 1..n |-> "x"]
Emails ==
  {<<>>, <<"u", "@", "h", ".", "c">>, <<"u", "@", "h">>, <<"u", " ", "@", "h", ".", "c">>,
   <<"@", "h", ".", "c">>, <<"u", "@", "h", ".">>}
Passwords == {<<>>, Chars(MinPasswordLength - 1), Chars(MinPasswordLength)}

\* /^[^\s@]+@[^\s@]+\.[^\s@]+$/.test(email)
validateEmail(text) ==
  \E i, j \in 1..Len(text) :
    /\ 1 < i /\ i + 1 < j /\ j < Len(text)
    /\ text[i] = "@"
    /\ text[j] = "."
    /\ \A k \in 1..Len(text) : k # i => text[k] \notin {" ", "@"}

validatePassword(text) == Len(text) >= MinPasswordLength

\* a verifyAuthenticatedSession that looks at the status of the answer only
verifyAuthenticatedSessionStatusOnly(answer) ==
  IF answer.kind = "rejected" THEN FALSE
  ELSE answer.ok

\* verifyAuthenticatedSession after its fetch("/api/token") settled
verifyAuthenticatedSession(answer) ==
  IF answer.kind = "rejected" THEN FALSE
  ELSE IF ~answer.ok THEN FALSE
  ELSE IF ~answer.parses THEN FALSE
  ELSE answer.token # Undefined

\* a handleSubmit without its guard against a double submission
SubmitSuppressedNever == FALSE

\* handleSubmit's test for a submission in flight
SubmitSuppressed == submittingRef

\* a finally block that resets loading and leaves the guard engaged
SubmitFinallyKeepsGuard ==
  /\ loading' = FALSE
  /\ UNCHANGED submittingRef

\* the finally block of handleSubmit
SubmitFinally ==
  /\ loading' = FALSE
  /\ submittingRef' = FALSE

\* the user types into an input (both are disabled while loading)
SetEmail(text) ==
  /\ ~loading
  /\ email' = text
  /\ authEvent' = "input"
  /\ UNCHANGED <<authMode, password, authError, loading, submittingRef, signing, verifying>>
  /\ UNCHANGED <<apiVars, now, session, dashVars, sessionState, logout, formVars, storeVars, itemVars>>

SetPassword(text) ==
  /\ ~loading
  /\ password' = text
  /\ authEvent' = "input"
  /\ UNCHANGED <<authMode, email, authError, loading, submittingRef, signing, verifying>>
  /\ UNCHANGED <<apiVars, now, session, dashVars, sessionState, logout, formVars, storeVars, itemVars>>

\* a submit event of the form: handleSubmit up to its first await
Submit ==
  /\ IF SubmitSuppressed
     THEN /\ authEvent' = "suppressed"
          /\ UNCHANGED <<authError, loading, submittingRef, signing>>
     ELSE IF ~validateEmail(email)
     THEN /\ authError' = Some("Please enter a valid email address")
          /\ authEvent' = "invalid"
          /\ UNCHANGED <<loading, submittingRef, signing>>
     ELSE IF ~validatePassword(password)
     THEN /\ authError' = Some("Password must be at least 8 characters")
          /\ authEvent' = "invalid"
          /\ UNCHANGED <<loading, submittingRef, signing>>
     ELSE /\ authError' = Null
          /\ submittingRef' = TRUE
          /\ loading' = TRUE
          /\ signing' = signing + 1
          /\ authEvent' = "sent"
  /\ UNCHANGED <<authMode, email, password, verifying>>
  /\ UNCHANGED <<apiVars, now, session, dashVars, sessionState, logout, formVars, storeVars, itemVars>>

\* the ways signUp.email / signIn.email fails: it resolves with result.error
\* (whatever the error is), or the call throws
SignFailures == {"error", "throws"}

\* the text handleSubmit shows for a failed attempt
signFailureMessage(mode, outcome) ==
  IF outcome = "error"
  THEN IF mode = "signup"
       THEN "Registration failed. Please try a different email or try again later."
       ELSE "Invalid email or password"
  ELSE IF mode = "login"
       THEN "Invalid email or password"
       ELSE "Registration failed"

\* signUp.email / signIn.email settles: with result.error, by throwing, or with
\* success, after which verifyAuthenticatedSession's fetch is sent
SignSettles(outcome) ==
  /\ signing > 0
  /\ signing' = signing - 1
  /\ authEvent' = "settled"
  /\ CASE outcome \in SignFailures ->
            /\ authError' = Some(signFailureMessage(authMode, outcome))
            /\ SubmitFinally
            /\ UNCHANGED <<verifying, session>>
       [] outcome = "ok" ->
            /\ session' = TRUE
            /\ verifying' = verifying + 1
            /\ UNCHANGED <<authError, loading, submittingRef>>
  /\ UNCHANGED <<authMode, email, password>>
  /\ UNCHANGED <<apiVars, now, dashVars, sessionState, logout, formVars, storeVars, itemVars>>

\* the token request of verifyAuthenticatedSession settles: handleSubmit's tail
VerifySettles(answer) ==
  /\ verifying > 0
  /\ verifying' = verifying - 1
  /\ authEvent' = "settled"
  /\ IF verifyAuthenticatedSession(answer)
     THEN /\ route' = "dashboard"
          /\ UNCHANGED authError
     ELSE /\ authError' = Some(IF authMode = "signup"
                               THEN "Registration succeeded but session creation failed. Please try logging in."
                               ELSE "Login succeeded but session creation failed. Please try again.")
          /\ UNCHANGED route
  /\ SubmitFinally
  /\ UNCHANGED <<authMode, email, password, signing>>
  /\ UNCHANGED <<apiVars, now, session, tasks, isLoading, isCreating, error, sessionState,
                 logout, formVars, storeVars, itemVars>>

----------------------------------------------------------------------------
(* components/TaskForm.tsx and components/TaskItem.tsx: title validation *)

\* the longest title the two components accept
MaxTitleLength == 200

\* String.prototype.trim(): white space is removed from both ends only
Whitespace == {" "}
RECURSIVE trimStart(_)
trimStart(text) ==
  IF text # <<>> /\ Head(text) \in Whitespace THEN trimStart(Tail(text)) ELSE text
RECURSIVE trimEnd(_)
trimEnd(text) ==
  IF text # <<>> /\ text[Len(text)] \in Whitespace
  THEN trimEnd(SubSeq(text, 1, Len(text) - 1))
  ELSE text
trim(text) == trimEnd(trimStart(text))

\* the values the fields are given: around both ends of the accepted range,
\* with and without white space at the ends, and with white space inside
Spaces(n) == [i \in 1..n |-> " "]
TitleLengths == {0, 1, MaxTitleLength - 1, MaxTitleLength, MaxTitleLength + 1}
TitleTexts ==
  {Chars(n) : n \in TitleLengths}
    \cup {Spaces(1) \o Chars(n) \o Spaces(1) : n \in {0, MaxTitleLength, MaxTitleLength + 1}}
    \cup {<<"x", " ", "x">>}
DescriptionTexts == {<<" ">>, <<" ", "d">>}

\* value.trim() || null
trimOrNull(text) == IF trim(text) = <<>> THEN Null ELSE Some(trim(text))

FormEvent(by, what, t, d) == [by |-> by, what |-> what, title |-> t, description |-> d]
NoFormEvent == FormEvent("none", "none", <<>>, Null)

\* how the promise of onSubmit / onUpdate settles: fulfilled, rejected with an
\* Error, or rejected with another value
CallbackOutcomes == {"ok", "error", "other"}
CallbackMessage == "Network error"

validateTitleOffByOne(value) ==
  LET trimmed == trim(value) IN
    IF trimmed = <<>> THEN Some("Title is required")
    ELSE IF Len(trimmed) >= MaxTitleLength
         THEN Some("Title must be 200 characters or less")
         ELSE Null

validateTitle(value) ==
  LET trimmed == trim(value) IN
    IF trimmed = <<>> THEN Some("Title is required")
    ELSE IF Len(trimmed) > MaxTitleLength
         THEN Some("Title must be 200 characters or less")
         ELSE Null

\* the disabled attribute of the controls of the create form; its isLoading
\* prop is isCreating of the dashboard page
formDisabled == isCreating

\* the disabled attribute of the controls of the task item
itemDisabledNever == FALSE
itemDisabled == itemIsLoading

\* onChange of the two inputs of the create form, disabled while isLoading
setTitle(text) ==
  /\ ~formDisabled
  /\ formTitle' = text
  /\ formEvent' = NoFormEvent
  /\ UNCHANGED <<formDescription, formError, formSubmitting, isEditing, editTitle,
                 editDescription, itemIsLoading, itemError>>
  /\ UNCHANGED <<apiVars, now, session, dashVars, sessionState, logout, authVars, storeVars, itemVars>>

setDescription(text) ==
  /\ ~formDisabled
  /\ formDescription' = text
  /\ formEvent' = NoFormEvent
  /\ UNCHANGED <<formTitle, formError, formSubmitting, isEditing, editTitle,
                 editDescription, itemIsLoading, itemError>>
  /\ UNCHANGED <<apiVars, now, session, dashVars, sessionState, logout, authVars, storeVars, itemVars>>

\* TaskForm.handleSubmit up to its await; the handler is the form's onSubmit and
\* checks the title itself, whatever the title part of the submit button's
\* disabled test. onSubmit is handleCreateTask of the page, which sets
\* isCreating before its own first await
TaskFormSubmit ==
  /\ ~formDisabled
  /\ IF validateTitle(formTitle) # Null
     THEN /\ formError' = validateTitle(formTitle)
          /\ formEvent' = FormEvent("TaskForm", "rejected", <<>>, Null)
          /\ UNCHANGED <<formSubmitting, isCreating>>
     ELSE /\ formError' = Null
          /\ formEvent' = FormEvent("TaskForm", "submitted", trim(formTitle),
                                    trimOrNull(formDescription))
          /\ formSubmitting' = TRUE
          /\ isCreating' = TRUE
  /\ UNCHANGED <<formTitle, formDescription, isEditing, editTitle, editDescription,
                 itemIsLoading, itemError>>
  /\ UNCHANGED <<apiVars, now, session, tasks, isLoading, error, route, sessionState,
                 logout, authVars, storeVars, itemVars>>

\* a handleSubmit that clears the two fields however onSubmit settled
TaskFormSettlesClearsAlways(outcome) ==
  /\ formSubmitting
  /\ formSubmitting' = FALSE
  /\ isCreating' = FALSE
  /\ formTitle' = <<>>
  /\ formDescription' = <<>>
  /\ formError' = CASE outcome = "ok" -> formError
                     [] outcome = "error" -> Some(CallbackMessage)
                     [] OTHER -> Some("Failed to create task")
  /\ formEvent' = FormEvent("TaskForm", "settled", <<>>, Null)
  /\ UNCHANGED <<isEditing, editTitle, editDescription, itemIsLoading, itemError>>
  /\ UNCHANGED <<apiVars, now, session, tasks, isLoading, error, route, sessionState,
                 logout, authVars, storeVars, itemVars>>

\* TaskForm.handleSubmit after its await; the finally of handleCreateTask has
\* reset isCreating before the promise settles
TaskFormSettles(outcome) ==
  /\ formSubmitting
  /\ formSubmitting' = FALSE
  /\ isCreating' = FALSE
  /\ CASE outcome = "ok" ->
            /\ formTitle' = <<>>
            /\ formDescription' = <<>>
            /\ UNCHANGED formError
       [] outcome = "error" ->
            /\ formError' = Some(CallbackMessage)
            /\ UNCHANGED <<formTitle, formDescription>>
       [] OTHER ->
            /\ formError' = Some("Failed to create task")
            /\ UNCHANGED <<formTitle, formDescription>>
  /\ formEvent' = FormEvent("TaskForm", "settled", <<>>, Null)
  /\ UNCHANGED <<isEditing, editTitle, editDescription, itemIsLoading, itemError>>
  /\ UNCHANGED <<apiVars, now, session, tasks, isLoading, error, route, sessionState,
                 logout, authVars, storeVars, itemVars>>

\* the task prop of the TaskItem instance
ItemTitle == Chars(1)
ItemDescription == <<>>

\* the Edit button, disabled while isLoading
startEdit ==
  /\ itemMounted
  /\ ~isEditing
  /\ ~itemDisabled
  /\ isEditing' = TRUE
  /\ formEvent' = NoFormEvent
  /\ UNCHANGED <<formTitle, formDescription, formError, formSubmitting, editTitle,
                 editDescription, itemIsLoading, itemError>>
  /\ UNCHANGED <<apiVars, now, session, dashVars, sessionState, logout, authVars, storeVars, itemVars>>

\* onChange of the two inputs of the edit form, disabled while isLoading
setEditTitle(text) ==
  /\ itemMounted
  /\ isEditing
  /\ ~itemDisabled
  /\ editTitle' = text
  /\ formEvent' = NoFormEvent
  /\ UNCHANGED <<formTitle, formDescription, formError, formSubmitting, isEditing,
                 editDescription, itemIsLoading, itemError>>
  /\ UNCHANGED <<apiVars, now, session, dashVars, sessionState, logout, authVars, storeVars, itemVars>>

setEditDescription(text) ==
  /\ itemMounted
  /\ isEditing
  /\ ~itemDisabled
  /\ editDescription' = text
  /\ formEvent' = NoFormEvent
  /\ UNCHANGED <<formTitle, formDescription, formError, formSubmitting, isEditing,
                 editTitle, itemIsLoading, itemError>>
  /\ UNCHANGED <<apiVars, now, session, dashVars, sessionState, logout, authVars, storeVars, itemVars>>

\* TaskItem.handleSaveEdit up to its await
handleSaveEdit ==
  /\ itemMounted
  /\ isEditing
  /\ ~itemDisabled
  /\ LET trimmedTitle == trim(editTitle) IN
       IF trimmedTitle = <<>>
       THEN /\ itemError' = Some("Title is required")
            /\ formEvent' = FormEvent("TaskItem", "rejected", <<>>, Null)
            /\ UNCHANGED <<itemIsLoading, itemInFlight>>
       ELSE IF Len(trimmedTitle) > MaxTitleLength
       THEN /\ itemError' = Some("Title must be 200 characters or less")
            /\ formEvent' = FormEvent("TaskItem", "rejected", <<>>, Null)
            /\ UNCHANGED <<itemIsLoading, itemInFlight>>
       ELSE /\ itemError' = Null
            /\ itemIsLoading' = TRUE
            /\ itemInFlight' = itemInFlight \cup {"update"}
            /\ formEvent' = FormEvent("TaskItem", "submitted", trimmedTitle,
                                      trimOrNull(editDescription))
  /\ UNCHANGED <<formTitle, formDescription, formError, formSubmitting, isEditing,
                 editTitle, editDescription, itemMounted, itemCompleted>>
  /\ UNCHANGED <<apiVars, now, session, dashVars, sessionState, logout, authVars, storeVars>>

\* TaskItem.handleSaveEdit after its await
SaveEditSettles(outcome) ==
  /\ "update" \in itemInFlight
  /\ itemInFlight' = itemInFlight \ {"update"}
  /\ itemIsLoading' = FALSE
  /\ CASE outcome = "ok" -> isEditing' = FALSE /\ UNCHANGED itemError
       [] outcome = "error" -> itemError' = Some(CallbackMessage) /\ UNCHANGED isEditing
       [] OTHER -> itemError' = Some("Failed to update task") /\ UNCHANGED isEditing
  /\ formEvent' = FormEvent("TaskItem", "settled", <<>>, Null)
  /\ UNCHANGED <<formTitle, formDescription, formError, formSubmitting, editTitle,
                 editDescription, itemMounted, itemCompleted>>
  /\ UNCHANGED <<apiVars, now, session, dashVars, sessionState, logout, authVars, storeVars>>

\* the Cancel button, disabled while isLoading
handleCancelEdit ==
  /\ itemMounted
  /\ isEditing
  /\ ~itemDisabled
  /\ editTitle' = ItemTitle
  /\ editDescription' = ItemDescription
  /\ itemError' = Null
  /\ isEditing' = FALSE
  /\ formEvent' = NoFormEvent
  /\ UNCHANGED <<formTitle, formDescription, formError, formSubmitting, itemIsLoading>>
  /\ UNCHANGED <<apiVars, now, session, dashVars, sessionState, logout, authVars, storeVars, itemVars>>

\* TaskItem.handleDelete up to its await; the Delete button is in the view the
\* item shows while it is not editing. confirmed is the answer of confirm()
handleDelete(confirmed) ==
  /\ itemMounted
  /\ ~isEditing
  /\ ~itemDisabled
  /\ IF ~confirmed
     THEN /\ formEvent' = NoFormEvent
          /\ UNCHANGED <<itemIsLoading, itemError, itemInFlight>>
     ELSE /\ itemIsLoading' = TRUE
          /\ itemError' = Null
          /\ itemInFlight' = itemInFlight \cup {"delete"}
          /\ formEvent' = FormEvent("TaskItem", "delete", <<>>, Null)
  /\ UNCHANGED <<formTitle, formDescription, formError, formSubmitting, isEditing,
                 editTitle, editDescription, itemMounted, itemCompleted>>
  /\ UNCHANGED <<apiVars, now, session, dashVars, sessionState, logout, authVars, storeVars>>

\* TaskItem.handleDelete after its await: isLoading is reset on failure only;
\* when onDelete succeeded the page has taken the task out of its list, and the
\* list no longer renders the item
DeleteSettles(outcome) ==
  /\ "delete" \in itemInFlight
  /\ itemInFlight' = itemInFlight \ {"delete"}
  /\ CASE outcome = "ok" ->
            /\ itemMounted' = FALSE
            /\ UNCHANGED <<itemIsLoading, itemError>>
       [] outcome = "error" ->
            /\ itemError' = Some(CallbackMessage)
            /\ itemIsLoading' = FALSE
            /\ UNCHANGED itemMounted
       [] OTHER ->
            /\ itemError' = Some("Failed to delete task")
            /\ itemIsLoading' = FALSE
            /\ UNCHANGED itemMounted
  /\ formEvent' = FormEvent("TaskItem", "settled", <<>>, Null)
  /\ UNCHANGED <<formTitle, formDescription, formError, formSubmitting, isEditing,
                 editTitle, editDescription, itemCompleted>>
  /\ UNCHANGED <<apiVars, now, session, dashVars, sessionState, logout, authVars, storeVars>>

\* TaskItem.handleToggleComplete up to its await; the checkbox is in the view
\* the item shows while it is not editing
handleToggleItem ==
  /\ itemMounted
  /\ ~isEditing
  /\ ~itemDisabled
  /\ itemIsLoading' = TRUE
  /\ itemError' = Null
  /\ itemInFlight' = itemInFlight \cup {"toggle"}
  /\ formEvent' = FormEvent("TaskItem", IF itemCompleted THEN "uncomplete" ELSE "complete",
                            <<>>, Null)
  /\ UNCHANGED <<formTitle, formDescription, formError, formSubmitting, isEditing,
                 editTitle, editDescription, itemMounted, itemCompleted>>
  /\ UNCHANGED <<apiVars, now, session, dashVars, sessionState, logout, authVars, storeVars>>

\* TaskItem.handleToggleComplete after its await; when onToggleComplete
\* succeeded the page has put the answered task into its list
ToggleSettles(outcome) ==
  /\ "toggle" \in itemInFlight
  /\ itemInFlight' = itemInFlight \ {"toggle"}
  /\ itemIsLoading' = FALSE
  /\ CASE outcome = "ok" -> itemCompleted' = ~itemCompleted /\ UNCHANGED itemError
       [] outcome = "error" ->
            itemError' = Some(CallbackMessage) /\ UNCHANGED itemCompleted
       [] OTHER ->
            itemError' = Some("Failed to update task") /\ UNCHANGED itemCompleted
  /\ formEvent' = FormEvent("TaskItem", "settled", <<>>, Null)
  /\ UNCHANGED <<formTitle, formDescription, formError, formSubmitting, isEditing,
                 editTitle, editDescription, itemMounted>>
  /\ UNCHANGED <<apiVars, now, session, dashVars, sessionState, logout, authVars, storeVars>>

----------------------------------------------------------------------------
(* Specifications *)

InitForms ==
  /\ formTitle = <<>>
  /\ formDescription = <<>>
  /\ formError = Null
  /\ formSubmitting = FALSE
  /\ isEditing = FALSE
  /\ editTitle = ItemTitle
  /\ editDescription = ItemDescription
  /\ itemIsLoading = FALSE
  /\ itemError = Null
  /\ formEvent = NoFormEvent
  /\ itemInFlight = {}
  /\ itemMounted = TRUE
  /\ itemCompleted = FALSE

InitApi ==
  /\ tasksCache = Null
  /\ cacheTimestamp = Null
  /\ now = TickMs
  /\ ops = [s \in 1..MaxOps |-> Idle]
  /\ issued = "none"
  /\ returned = NoReturn
  /\ lastRead = Null

InitDashboard ==
  /\ tasks = <<>>
  /\ isLoading = TRUE
  /\ isCreating = FALSE
  /\ error = Null
  /\ sessionState = "pending"
  /\ logout = [e \in LogoutEntryPoints |-> [pc |-> "idle", did |-> <<>>]]

InitAuthForm ==
  /\ email = <<>>
  /\ password = <<>>
  /\ authError = Null
  /\ loading = FALSE
  /\ submittingRef = FALSE
  /\ signing = 0
  /\ verifying = 0
  /\ authEvent = "none"

\* a store without tasks and without a request
InitStore ==
  /\ store = <<>>
  /\ nextId = 1
  /\ answers = [s \in 1..MaxOps |-> NoAnswer]

\* the dashboard page is open in a browser that holds a session cookie
Init ==
  /\ InitApi
  /\ InitDashboard
  /\ InitAuthForm
  /\ InitForms
  /\ InitStore
  /\ authMode = "login"
  /\ session = TRUE
  /\ route = "dashboard"

\* the login or the signup page is open, without a session
InitAuth ==
  /\ InitApi
  /\ InitDashboard
  /\ InitAuthForm
  /\ InitForms
  /\ InitStore
  /\ authMode \in {"login", "signup"}
  /\ session = FALSE
  /\ route = "login"

\* the API client used by any client code
NextApi ==
  \/ \E c \in Calls : ApiCall(c)
  \/ ClearCacheCall
  \/ \E s \in DOMAIN ops, answer \in TokenAnswers : TokenResponse(s, answer)
  \/ \E s \in DOMAIN ops : \E resp \in StoreAnswers(ops[s]) : ReceiveSuccess(s, resp)
  \/ \E s \in DOMAIN ops, body \in ErrorBodies : ReceiveFailure(s, body)
  \/ \E s \in DOMAIN ops : NetworkFailure(s)
  \/ Tick
  \/ SessionExpires

SpecApi == Init /\ [][NextApi]_vars

\* the dashboard page: its fetch on mount and on "Try again", and logout from both
\* entry points
NextDash ==
  \/ \E isPending \in BOOLEAN : SessionDelivered(isPending)
  \/ TryAgain
  \/ \E s \in DOMAIN ops, answer \in TokenAnswers : TokenResponse(s, answer)
  \/ \E s \in DOMAIN ops : \E resp \in StoreAnswers(ops[s]) : ReceiveSuccess(s, resp)
  \/ \E s \in DOMAIN ops, body \in ErrorBodies : ReceiveFailure(s, body)
  \/ \E s \in DOMAIN ops : NetworkFailure(s)
  \/ DashboardLogout
  \/ ButtonLogout
  \/ \E e \in LogoutEntryPoints : ProviderEndsSession(e)
  \/ \E e \in LogoutEntryPoints : SignOutResolves(e)
  \/ \E e \in LogoutEntryPoints : SignOutRejects(e)
  \/ SessionExpires

SpecDash == Init /\ [][NextDash]_vars

\* no call of the API client is in flight
Quiet == \A s \in DOMAIN ops : ops[s] = Idle

\* the dashboard page with its list, used one operation at a time: the fetch on
\* mount and the four handlers, each started when the call before it has settled
NextTasks ==
  \/ \E isPending \in BOOLEAN : Quiet /\ SessionDelivered(isPending)
  \/ \E title \in Titles : Quiet /\ handleCreateTask(title)
  \/ \E taskId \in TaskIds, title \in Titles : Quiet /\ handleUpdateTask(taskId, title)
  \/ \E taskId \in TaskIds : Quiet /\ handleDeleteTask(taskId)
  \/ \E taskId \in TaskIds, isCompleted \in BOOLEAN :
       Quiet /\ handleToggleComplete(taskId, isCompleted)
  \/ \E s \in DOMAIN ops, answer \in TokenAnswers : TokenResponse(s, answer)
  \/ \E s \in DOMAIN ops : \E resp \in StoreAnswers(ops[s]) : ReceiveSuccess(s, resp)
  \/ \E s \in DOMAIN ops, body \in ErrorBodies : ReceiveFailure(s, body)
  \/ \E s \in DOMAIN ops : NetworkFailure(s)

SpecTasks == Init /\ [][NextTasks]_vars

\* the store holds the tasks written in earlier visits of the page
InitialStores == {<<>>, <<Task(1, "a", TRUE)>>}
InitSync ==
  /\ InitApi
  /\ InitDashboard
  /\ InitAuthForm
  /\ InitForms
  /\ authMode = "login"
  /\ session = TRUE
  /\ route = "dashboard"
  /\ store \in InitialStores
  /\ nextId = Len(store) + 1
  /\ answers = [s \in 1..MaxOps |-> NoAnswer]

\* the dashboard page as the only writer of the store, used one operation at a
\* time, with a session that stays valid and a store that is reached
NextSync ==
  \/ \E isPending \in BOOLEAN : Quiet /\ SessionDelivered(isPending)
  \/ \E title \in Titles : Quiet /\ nextId <= MaxId /\ handleCreateTask(title)
  \/ \E taskId \in 1..MaxId, title \in Titles : Quiet /\ handleUpdateTask(taskId, title)
  \/ \E taskId \in 1..MaxId : Quiet /\ handleDeleteTask(taskId)
  \/ \E taskId \in 1..MaxId, isCompleted \in BOOLEAN :
       Quiet /\ handleToggleComplete(taskId, isCompleted)
  \/ \E s \in DOMAIN ops : TokenResponse(s, TokenRoute(session, FALSE))
  \/ \E s \in DOMAIN ops : StoreServes(s)
  \/ \E s \in DOMAIN ops : AnswerArrives(s)

SpecSync == InitSync /\ [][NextSync]_vars

\* calls that overlap: one more slot than the other specifications have
RaceOps == MaxOps + 1
InitRace ==
  /\ tasksCache = Null
  /\ cacheTimestamp = Null
  /\ now = TickMs
  /\ ops = [s \in 1..RaceOps |-> Idle]
  /\ issued = "none"
  /\ returned = NoReturn
  /\ lastRead = Null
  /\ InitDashboard
  /\ InitAuthForm
  /\ InitForms
  /\ authMode = "login"
  /\ session = TRUE
  /\ route = "dashboard"
  /\ store = <<>>
  /\ nextId = 1
  /\ answers = [s \in 1..RaceOps |-> NoAnswer]

\* the dashboard page as the only writer of the store, with its fetch and its
\* create form used while other calls are in flight, and a reader of the cache;
\* the session stays valid and every request is answered, in any order
NextRace ==
  \/ \E isPending \in BOOLEAN : SessionDelivered(isPending)
  \/ \E title \in Titles : nextId <= MaxId /\ handleCreateTask(title)
  \/ ApiCall(Call("list", FALSE, 0, "-"))
  \/ \E s \in DOMAIN ops : TokenResponse(s, TokenRoute(session, FALSE))
  \/ \E s \in DOMAIN ops : StoreServes(s)
  \/ \E s \in DOMAIN ops : AnswerArrives(s)

SpecRace == InitRace /\ [][NextRace]_vars

\* the failures of a request that the dashboard tells apart: one whose message
\* names an authentication failure, one that does not
FlagBodies ==
  {StructuredBody("UNAUTHORIZED", MsgUnauthorizedText, Undefined),
   StructuredBody("NOT_FOUND", MsgTaskNotFound, Undefined)}
FlagTokenAnswers == {TokenRoute(session, FALSE), TokenNetworkFailure}

\* the dashboard page with its fetch and its create form used while other calls
\* are in flight; a request is served by the store, or fails on its way to it
NextFlags ==
  \/ \E isPending \in BOOLEAN : SessionDelivered(isPending)
  \/ TryAgain
  \/ nextId <= MaxId /\ handleCreateTask("a")
  \/ \E s \in DOMAIN ops, answer \in FlagTokenAnswers : TokenResponse(s, answer)
  \/ \E s \in DOMAIN ops : StoreServes(s)
  \/ \E s \in DOMAIN ops : AnswerArrives(s)
  \/ \E s \in DOMAIN ops, body \in FlagBodies : answers[s] = NoAnswer /\ ReceiveFailure(s, body)

SpecFlags == InitRace /\ [][NextFlags]_vars

\* the page has fetched the list of a store that holds two tasks
LoadedStore == <<Task(2, "b", FALSE), Task(1, "a", FALSE)>>
InitLate ==
  /\ tasksCache = Some(LoadedStore)
  /\ cacheTimestamp = Some(TickMs)
  /\ now = TickMs
  /\ ops = [s \in 1..RaceOps |-> Idle]
  /\ issued = "none"
  /\ returned = NoReturn
  /\ lastRead = Some(TickMs)
  /\ tasks = LoadedStore
  /\ isLoading = FALSE
  /\ isCreating = FALSE
  /\ error = Null
  /\ sessionState = "ready"
  /\ logout = [e \in LogoutEntryPoints |-> [pc |-> "idle", did |-> <<>>]]
  /\ InitAuthForm
  /\ InitForms
  /\ authMode = "login"
  /\ session = TRUE
  /\ route = "dashboard"
  /\ store = LoadedStore
  /\ nextId = Len(LoadedStore) + 1
  /\ answers = [s \in 1..RaceOps |-> NoAnswer]

\* the task whose item is used
LateIds == {1}

\* the handlers the task items call, started while an earlier call is in flight;
\* the session stays valid and every request is answered, in any order
NextLate ==
  \/ \E taskId \in LateIds : handleUpdateTask(taskId, "b")
  \/ \E taskId \in LateIds : handleDeleteTask(taskId)
  \/ \E taskId \in LateIds, isCompleted \in BOOLEAN : handleToggleComplete(taskId, isCompleted)
  \/ \E s \in DOMAIN ops : TokenResponse(s, TokenRoute(session, FALSE))
  \/ \E s \in DOMAIN ops : StoreServes(s)
  \/ \E s \in DOMAIN ops : AnswerArrives(s)

SpecLate == InitLate /\ [][NextLate]_vars

\* the calls of the clients of lib/api.ts that overlap: reads of both kinds, a
\* create and a delete
CacheCalls ==
  {Call("list", FALSE, 0, "-"), Call("list", TRUE, 0, "-"),
   Call("create", FALSE, 0, "a"),
   Call("delete", FALSE, 2, "-")}

\* lib/api.ts with calls in flight together and a logout's clearApiCache() at
\* any moment between their steps
NextCache ==
  \/ \E c \in CacheCalls : ApiCall(c)
  \/ ClearCacheCall
  \/ \E s \in DOMAIN ops, answer \in TokenAnswers : TokenResponse(s, answer)
  \/ \E s \in DOMAIN ops : \E resp \in StoreAnswers(ops[s]) : ReceiveSuccess(s, resp)
  \/ \E s \in DOMAIN ops, body \in ErrorBodies : ReceiveFailure(s, body)
  \/ \E s \in DOMAIN ops : NetworkFailure(s)
  \/ Tick

SpecCache == InitRace /\ [][NextCache]_vars

\* one AuthForm
NextAuth ==
  \/ \E text \in Emails : SetEmail(text)
  \/ \E text \in Passwords : SetPassword(text)
  \/ Submit
  \/ \E outcome \in {"error", "throws", "ok"} : SignSettles(outcome)
  \/ \E answer \in TokenAnswers : VerifySettles(answer)

SpecAuth == InitAuth /\ [][NextAuth]_vars

\* the create form and one task item, against callbacks that settle either way
NextForms ==
  \/ \E text \in TitleTexts : setTitle(text)
  \/ \E text \in DescriptionTexts : setDescription(text)
  \/ TaskFormSubmit
  \/ \E outcome \in CallbackOutcomes : TaskFormSettles(outcome)
  \/ startEdit
  \/ \E text \in TitleTexts : setEditTitle(text)
  \/ \E text \in DescriptionTexts : setEditDescription(text)
  \/ handleSaveEdit
  \/ \E outcome \in CallbackOutcomes : SaveEditSettles(outcome)
  \/ handleCancelEdit

SpecForms == Init /\ [][NextForms]_vars

\* the controls of the create form and of one task item: every handler that
\* calls back into the page, with its confirm() answered either way
ControlTitles == {<<>>, Chars(1)}
NextControls ==
  \/ \E text \in ControlTitles : setTitle(text)
  \/ TaskFormSubmit
  \/ \E outcome \in CallbackOutcomes : TaskFormSettles(outcome)
  \/ startEdit
  \/ \E text \in ControlTitles : setEditTitle(text)
  \/ handleSaveEdit
  \/ \E outcome \in CallbackOutcomes : SaveEditSettles(outcome)
  \/ handleCancelEdit
  \/ \E confirmed \in BOOLEAN : handleDelete(confirmed)
  \/ \E outcome \in CallbackOutcomes : DeleteSettles(outcome)
  \/ handleToggleItem
  \/ \E outcome \in CallbackOutcomes : ToggleSettles(outcome)

SpecControls == Init /\ [][NextControls]_vars

----------------------------------------------------------------------------
(* Properties *)

Returned == returned # NoReturn
ReturnedOk == Returned /\ returned.outcome = "ok"
ReturnedThrow == Returned /\ returned.outcome = "throw"

\* C1: when createTask, updateTask, deleteTask, completeTask or uncompleteTask returns
\* after a successful remote call, tasksCache and cacheTimestamp are both null,
\* whatever the cache held before.
C1_MutationSuccessEmptiesCache ==
  (ReturnedOk /\ returned.kind \in Mutations)
    => (tasksCache = Null /\ cacheTimestamp = Null)

\* a delete returned with success while the cache held an entry
C1_Witness ==
  /\ ReturnedOk
  /\ returned.kind = "delete"
  /\ returned.hadCache

\* C2: (a) a list read that is not forced, made less than CACHE_TTL after a list read
\* returned from the network with no mutation returned and no logout since, sends no
\* request and returns the cached sequence, so the two reads issue one network call;
\* (b) a list read made right after a mutation returned with success goes to the
\* network, forced or not: it is not answered from the cache, its token request is
\* sent.
IsListCall(c) == c.kind = "list"
C2_ReadsWithinTtl ==
  [][\A c \in Calls :
       (ApiCall(c) /\ IsListCall(c)) =>
         /\ (~c.force /\ ~lastRead.isNull /\ now - lastRead.val < CACHE_TTL)
              => (issued' = "none" /\ ops' = ops /\ returned'.fromCache
                    /\ returned'.value = ListValue(tasksCache.val))
         /\ (ReturnedOk /\ returned.kind \in Mutations)
              => (issued' = "token" /\ returned' = NoReturn)]_vars

\* a list read was answered from the cache some time after the entry was stored
C2_Witness ==
  /\ ReturnedOk
  /\ returned.fromCache
  /\ now > cacheTimestamp.val

\* C3: when the token request of any task operation yields no token, the operation
\* throws an ApiRequestError with code UNAUTHORIZED, no request is sent to the remote
\* store, and the cache is as it was.
C3_NoTokenNoRequest ==
  [][\A s \in DOMAIN ops, answer \in TokenAnswers :
       (TokenResponse(s, answer) /\ getAuthToken(answer).isNull) =>
         /\ ops'[s] = Idle
         /\ returned' # NoReturn
         /\ returned'.kind = ops[s].kind
         /\ returned'.outcome = "throw"
         /\ returned'.err.name = "ApiRequestError"
         /\ returned'.err.code = "UNAUTHORIZED"
         /\ issued' # "remote"
         /\ UNCHANGED <<tasksCache, cacheTimestamp>>]_vars

\* an operation failed for want of a token while the cache held an entry
C3_Witness ==
  /\ ReturnedThrow
  /\ returned.err = ApiRequestError("UNAUTHORIZED", MsgNotAuthenticated, Undefined)
  /\ ~tasksCache.isNull

\* C4: when the request of the dashboard's fetchTasks is answered with a non-success
\* status and a structured body of code UNAUTHORIZED, whatever the message, the page
\* goes to the login view, keeps its tasks as they were and sets no error.
C4_UnauthorizedCodeRedirects ==
  [][\A s \in DOMAIN ops, body \in ErrorBodies :
       (/\ ReceiveFailure(s, body)
        /\ ops[s].caller = "fetchTasks"
        /\ route = "dashboard"
        /\ body.shape = "structured"
        /\ body.code = "UNAUTHORIZED")
       => (route' = "login" /\ tasks' = tasks /\ error'.isNull)]_vars

\* C5: a rejected fetch of the token request or of the store request never gives the
\* caller an error of code UNAUTHORIZED and never takes the dashboard to the login
\* view.
C5_TransportFailureIsNotAuthFailure ==
  [][\A s \in DOMAIN ops :
       (TokenResponse(s, TokenNetworkFailure) \/ NetworkFailure(s))
       => /\ returned' # NoReturn => returned'.err.code # "UNAUTHORIZED"
          /\ route = "dashboard" => route' = "dashboard"]_vars

\* C6: a handleLogout of either entry point that has ended, with signOut resolved or
\* rejected, has cleared the cache and has navigated to the login view.
LogoutEnded(e) == logout[e].pc \in {"done", "failed"}
LogoutDid(e, what) == \E i \in DOMAIN logout[e].did : logout[e].did[i] = what
C6_LogoutAlwaysClearsAndNavigates ==
  \A e \in LogoutEntryPoints :
    LogoutEnded(e) => (LogoutDid(e, "cache") /\ LogoutDid(e, "nav"))

\* C7: in either entry point the cache is cleared before the session is ended and
\* before the navigation, and the session is ended before the navigation.
LogoutBefore(e, first, second) ==
  \A i, j \in DOMAIN logout[e].did :
    (logout[e].did[i] = first /\ logout[e].did[j] = second) => i < j
C7_LogoutOrder ==
  \A e \in LogoutEntryPoints :
    /\ LogoutBefore(e, "cache", "session")
    /\ LogoutBefore(e, "cache", "nav")
    /\ LogoutBefore(e, "session", "nav")
    /\ LogoutDid(e, "session") => LogoutDid(e, "cache")
    /\ LogoutDid(e, "nav") => (LogoutDid(e, "cache") /\ LogoutDid(e, "session"))

\* C8: one AuthForm never has two sign-in/sign-up requests in flight, and a submit
\* event that arrives while a submission is in flight (its sign request or the
\* session verification that follows it) sends no request and changes no state of the
\* form, of the route or of the session.
SubmitInFlight == signing + verifying > 0
C8_DoubleSubmitGuard ==
  /\ [](signing <= 1)
  /\ [][(Submit /\ SubmitInFlight) =>
          /\ authEvent' = "suppressed"
          /\ UNCHANGED <<authMode, email, password, authError, loading, submittingRef,
                         signing, verifying, route, session>>]_vars

\* a submit event was suppressed while the sign request of a valid form was in flight
C8_Witness ==
  /\ authEvent = "suppressed"
  /\ signing = 1
  /\ validateEmail(email)
  /\ validatePassword(password)

\* C9: whatever makes a task operation fail (no token, a non-success status with any
\* body, a rejected fetch of the store), what its caller gets is a thrown
\* ApiRequestError.
C9_EveryFailureIsApiRequestError ==
  ReturnedThrow => returned.err.name = "ApiRequestError"

\* C10: on a non-success status, a body that cannot be parsed gives an ApiRequestError
\* of code UNKNOWN with the generic message, and a body of the structured shape gives
\* an ApiRequestError with that body's code, message and details.
C10_ErrorBodyNormalised ==
  [][\A s \in DOMAIN ops, body \in ErrorBodies :
       ReceiveFailure(s, body) =>
         /\ returned' # NoReturn
         /\ returned'.outcome = "throw"
         /\ body.shape = "unparsable" =>
              returned'.err = ApiRequestError("UNKNOWN", MsgGeneric, Undefined)
         /\ body.shape = "structured" =>
              returned'.err = ApiRequestError(body.code, body.message, body.details)]_vars

\* an operation failed with the code, message and details of a structured body
C10_Witness ==
  /\ ReturnedThrow
  /\ returned.err = ApiRequestError("NOT_FOUND", MsgTaskNotFound, "field")

\* C11: a getTasks call that is forced, or finds no cache entry, or finds an entry
\* whose age is not under CACHE_TTL, is not answered from the cache and starts its
\* request; when the store answers that request with a list, the cache holds exactly
\* that list with the time of the answer as its timestamp, and getTasks returns that
\* list.
CacheEntryUsable ==
  /\ ~tasksCache.isNull
  /\ ~cacheTimestamp.isNull
  /\ now - cacheTimestamp.val < CACHE_TTL
ListCallStarted ==
  \E s \in DOMAIN ops :
    /\ ops[s] = Idle
    /\ ops'[s] = Op("api", "list", 0, "-")
C11_ReadThroughReplacesEntry ==
  [][/\ \A c \in Calls :
          (ApiCall(c) /\ IsListCall(c) /\ (c.force \/ ~CacheEntryUsable))
            => (issued' = "token" /\ returned' = NoReturn /\ ListCallStarted)
     /\ \A s \in DOMAIN ops : \A resp \in StoreAnswers(ops[s]) :
          (ReceiveSuccess(s, resp) /\ ops[s].kind = "list")
            => /\ tasksCache' = Some(resp.body.list)
               /\ cacheTimestamp' = Some(now)
               /\ returned' # NoReturn
               /\ returned'.outcome = "ok"
               /\ ~returned'.fromCache
               /\ returned'.value = resp.body]_vars

\* a list read from the network replaced an older cache entry by a non-empty list
C11_Witness ==
  /\ ReturnedOk
  /\ returned.kind = "list"
  /\ ~returned.fromCache
  /\ returned.hadCache
  /\ returned.value.list # <<>>
  /\ tasksCache = Some(returned.value.list)
  /\ cacheTimestamp = Some(now)
  /\ now > TickMs

\* C12: clearApiCache() can be called in every state, leaves both cache variables
\* null whatever they held, and called on an empty cache (so also right after
\* another clearApiCache()) it leaves the cache as it is.
CacheEmpty == tasksCache = Null /\ cacheTimestamp = Null
C12_InvalidateIdempotent ==
  /\ [](ENABLED ClearCacheCall)
  /\ [][ClearCacheCall =>
          /\ CacheEmpty'
          /\ CacheEmpty => UNCHANGED <<tasksCache, cacheTimestamp>>]_vars

\* clearApiCache() has just emptied a cache that held an entry
C12_Witness ==
  /\ ReturnedOk
  /\ returned.kind = "clear"
  /\ returned.hadCache
  /\ CacheEmpty

\* C13: while useSession() reports pending the dashboard has no call in flight and
\* no tasks, and its mount effect does nothing; when the session is resolved without
\* a user the effect goes to the login view and starts no call; when it is resolved
\* with a user the effect starts a getTasks call that is sent whatever the cache
\* holds.
FetchStarted ==
  \E s \in DOMAIN ops :
    /\ ops[s] = Idle
    /\ ops'[s] = Op("fetchTasks", "list", 0, "-")
C13_MountProtocol ==
  /\ [](sessionState = "pending" => (tasks = <<>> /\ \A s \in DOMAIN ops : ops[s] = Idle))
  /\ [][\A isPending \in BOOLEAN :
          SessionDelivered(isPending) =>
            /\ isPending =>
                 (issued' = "none" /\ UNCHANGED <<ops, tasksCache, cacheTimestamp, dashVars>>)
            /\ (~isPending /\ ~session) =>
                 (route' = "login" /\ issued' = "none" /\ ops' = ops)
            /\ (~isPending /\ session) =>
                 (route' = "dashboard" /\ issued' = "token" /\ returned' = NoReturn
                    /\ FetchStarted)]_vars

\* the mount effect has started its call although the cache holds a fresh entry
C13_Witness ==
  /\ sessionState = "ready"
  /\ issued = "token"
  /\ isCacheValid
  /\ \E s \in DOMAIN ops : ops[s] = Op("fetchTasks", "list", 0, "-")

\* C14: when getTasks of the dashboard's fetchTasks throws an error that is no
\* authentication failure (its code is not UNAUTHORIZED and its message does not speak
\* of one), the page stays on the dashboard, sets the error's message as its inline
\* error and keeps its list; "Try again" clears the error and starts a getTasks call
\* that is sent whatever the cache holds; and when such a call succeeds the list of
\* the page is the fetched list.
IsAuthFailure(err) ==
  \/ err.code = "UNAUTHORIZED"
  \/ Includes(err.message, <<"UNAUTHORIZED">>)
  \/ Includes(err.message, <<"Not", "authenticated">>)
FetchSettles(outcome) ==
  /\ route = "dashboard"
  /\ returned' # NoReturn
  /\ returned'.caller = "fetchTasks"
  /\ returned'.outcome = outcome
C14_FetchFailureIsRetryable ==
  [][/\ (FetchSettles("throw") /\ ~IsAuthFailure(returned'.err)) =>
          /\ route' = "dashboard"
          /\ error' = Some(returned'.err.message)
          /\ tasks' = tasks
          /\ isLoading' = FALSE
     /\ TryAgain =>
          /\ error' = Null
          /\ issued' = "token"
          /\ returned' = NoReturn
          /\ FetchStarted
          /\ UNCHANGED <<tasks, route, tasksCache, cacheTimestamp>>
     /\ FetchSettles("ok") =>
          /\ tasks' = returned'.value.list
          /\ UNCHANGED <<error, route>>]_vars

\* the fetch failed with NOT_FOUND and the page shows the message, not the login view
C14_Witness ==
  /\ ReturnedThrow
  /\ returned.caller = "fetchTasks"
  /\ returned.err.code = "NOT_FOUND"
  /\ error = Some(MsgTaskNotFound)
  /\ route = "dashboard"

\* C15: handleCreateTask leaves the list alone until createTask has returned; when
\* the store answers its request with the created task, the list is that task
\* followed by the list as it was, one element longer, and the handler emits one
\* notification, a success.
InFlightOf(s, caller) == IF ops[s] = Idle THEN FALSE ELSE ops[s].caller = caller
C15_CreatePrepends ==
  [][/\ \A title \in Titles : handleCreateTask(title) => tasks' = tasks
     /\ \A s \in DOMAIN ops :
          (InFlightOf(s, "handleCreateTask") /\ ops'[s] # Idle) => tasks' = tasks
     /\ \A s \in DOMAIN ops : \A resp \in StoreAnswers(ops[s]) :
          (ReceiveSuccess(s, resp) /\ ops[s].caller = "handleCreateTask"
             /\ route = "dashboard")
          => /\ tasks' = <<resp.body.task>> \o tasks
             /\ Len(tasks') = Len(tasks) + 1
             /\ returned'.toasts = <<Toast("success", SuccessText("create"))>>]_vars

\* a created task was put in front of a task that differs from it
C15_Witness ==
  /\ ReturnedOk
  /\ returned.caller = "handleCreateTask"
  /\ Len(tasks) = MaxTasks
  /\ tasks[1] = returned.value.task
  /\ tasks[1] # tasks[2]

\* C16: when the store answers the request of handleUpdateTask or of
\* handleToggleComplete with a task, every element of the list whose id is the target
\* id is that task, every other element is as it was, at the same place, and the
\* list is as long as before.
UpdatingHandlers == {"handleUpdateTask", "handleToggleComplete"}
C16_UpdateReplacesInPlace ==
  [][\A s \in DOMAIN ops : \A resp \in StoreAnswers(ops[s]) :
       (ReceiveSuccess(s, resp) /\ ops[s].caller \in UpdatingHandlers
          /\ route = "dashboard")
       => /\ Len(tasks') = Len(tasks)
          /\ \A i \in DOMAIN tasks :
               tasks'[i] = IF tasks[i].id = ops[s].id THEN resp.body.task ELSE tasks[i]]_vars

\* a toggle replaced one task of a list of two by the task of the answer
C16_Witness ==
  /\ ReturnedOk
  /\ returned.caller = "handleToggleComplete"
  /\ Len(tasks) = 2
  /\ \E i, j \in DOMAIN tasks :
       /\ tasks[i] = returned.value.task
       /\ tasks[j].id # returned.value.task.id

\* C17: handleDeleteTask leaves the list alone until deleteTask has returned; when the
\* store has confirmed the delete, the list is the list as it was without the
\* elements of the deleted id, the others in their order.
KeptPlaces(taskId) == {i \in DOMAIN tasks : tasks[i].id # taskId}
KeptPlace(taskId, k) ==
  CHOOSE i \in KeptPlaces(taskId) :
    Cardinality({j \in KeptPlaces(taskId) : j < i}) = k - 1
C17_DeleteRemovesById ==
  [][/\ \A taskId \in TaskIds : handleDeleteTask(taskId) => tasks' = tasks
     /\ \A s \in DOMAIN ops :
          (InFlightOf(s, "handleDeleteTask") /\ ops'[s] # Idle) => tasks' = tasks
     /\ \A s \in DOMAIN ops : \A resp \in StoreAnswers(ops[s]) :
          (ReceiveSuccess(s, resp) /\ ops[s].caller = "handleDeleteTask"
             /\ route = "dashboard")
          => /\ Len(tasks') = Cardinality(KeptPlaces(ops[s].id))
             /\ \A k \in DOMAIN tasks' : tasks'[k] = tasks[KeptPlace(ops[s].id, k)]]_vars

\* a delete has left the other task of the list
C17_Witness ==
  /\ ReturnedOk
  /\ returned.caller = "handleDeleteTask"
  /\ Len(tasks) = 1

\* the title is inside the accepted range once white space at its ends is removed
TitleAccepted(text) == Len(trim(text)) >= 1 /\ Len(trim(text)) <= MaxTitleLength
TitleMessages == {Some("Title is required"), Some("Title must be 200 characters or less")}

\* C18: a submit of the create form or of the inline edit whose trimmed title is
\* empty or longer than 200 characters shows a validation message and hands
\* nothing to onSubmit / onUpdate; a trimmed title of 1 to 200 characters is
\* handed over in trimmed form
C18_TitleLengthBoundary ==
  [][/\ TaskFormSubmit =>
          IF TitleAccepted(formTitle)
          THEN /\ formEvent'.what = "submitted"
               /\ formEvent'.title = trim(formTitle)
               /\ formSubmitting'
               /\ formError' = Null
          ELSE /\ formEvent'.what = "rejected"
               /\ formError' \in TitleMessages
               /\ ~formSubmitting'
     /\ handleSaveEdit =>
          IF TitleAccepted(editTitle)
          THEN /\ formEvent'.what = "submitted"
               /\ formEvent'.title = trim(editTitle)
               /\ itemIsLoading'
               /\ itemError' = Null
          ELSE /\ formEvent'.what = "rejected"
               /\ itemError' \in TitleMessages
               /\ ~itemIsLoading']_vars

\* the create form handed over a title of exactly 200 characters that was typed
\* with white space around it, while the inline edit refused one of 201
C18_Witness ==
  /\ formSubmitting
  /\ Len(formTitle) > MaxTitleLength
  /\ Len(trim(formTitle)) = MaxTitleLength
  /\ formEvent = FormEvent("TaskItem", "rejected", <<>>, Null)
  /\ Len(trim(editTitle)) = MaxTitleLength + 1
  /\ itemError = Some("Title must be 200 characters or less")

\* C19: within a mode, a failed sign-in / sign-up attempt displays the same
\* message whether the provider answered with an error or the call threw
C19_OneFailureMessagePerMode ==
  [][\A cause \in SignFailures :
       SignSettles(cause) =>
         \A other \in SignFailures :
           authError' = Some(signFailureMessage(authMode, other))]_vars

\* the token request brought no token: no session (401), another non-success
\* answer, a success answer without a token or with an unreadable body, or a
\* request that failed
TokenUnavailable(answer) ==
  \/ answer.kind = "rejected"
  \/ ~answer.ok
  \/ ~answer.parses
  \/ answer.token = Undefined

\* C20: whenever the token request brings no token, for whichever of these
\* reasons, getAuthToken returns null without raising, and it is apiRequest, its
\* caller, that turns the missing token into its own UNAUTHORIZED error
C20_TokenAcquisitionNeverRaises ==
  [][\A s \in DOMAIN ops, answer \in TokenAnswers :
       (TokenResponse(s, answer) /\ TokenUnavailable(answer)) =>
         /\ getAuthTokenSettles(answer) = TokenAttempt(FALSE, Null)
         /\ returned' # NoReturn
         /\ returned'.outcome = "throw"
         /\ returned'.err = ApiRequestError("UNAUTHORIZED", MsgNotAuthenticated, Undefined)]_vars

\* a forced list read ended for want of a token after the session was gone
C20_Witness ==
  /\ ReturnedThrow
  /\ returned.kind = "list"
  /\ returned.err = ApiRequestError("UNAUTHORIZED", MsgNotAuthenticated, Undefined)
  /\ ~session
  /\ tasksCache.isNull

\* C21: the token route answers with a body holding a token exactly when the
\* request carries a session with a user, and with status 401 in every other case
C21_TokenOrUnauthorized ==
  [][\A s \in DOMAIN ops, signingThrows \in BOOLEAN :
       TokenResponse(s, TokenRoute(session, signingThrows)) =>
         LET answer == TokenRoute(session, signingThrows) IN
           IF session
           THEN answer.ok /\ answer.token # Undefined
           ELSE answer.status = 401 /\ answer.token = Undefined]_vars

\* the page has fetched its list and no operation is in flight
PageSettled == Quiet /\ PageShown /\ ~isLoading

\* C22: on a page that is the only writer of the store and runs its create,
\* update, delete and toggle operations one after the other, each with success,
\* the list of the page is the list a forced read returns, which is the list
\* of the store: same ids, same order, same field values
C22_ListFollowsStore == PageSettled => tasks = store

\* a task was created, another one completed and a third one deleted, and the
\* page shows what the store holds
C22_Witness ==
  /\ PageSettled
  /\ Len(tasks) = 2
  /\ nextId > 3
  /\ tasks[1].title # tasks[2].title
  /\ tasks[1].is_completed
  /\ ~tasks[2].is_completed
  /\ ReturnedOk
  /\ returned.caller = "handleToggleComplete"
  /\ tasks = store

\* where the call of slot s is: "idle", or at the await of its token request
\* ("token") or of its request to the store ("remote")
PcOf(o) == IF o = Idle THEN "idle" ELSE o.pc

\* the moves of one call: it starts by sending its token request, sends its
\* request to the store when the token is there, and ends without sending anything
CallMoves(from, to, sent) ==
  \/ from = "idle" /\ to = "token" /\ sent = "token"
  \/ from = "token" /\ to = "remote" /\ sent = "remote"
  \/ from \in {"token", "remote"} /\ to = "idle" /\ sent = "none"

C24_TokenPerRequest ==
  [][/\ \A s \in DOMAIN ops :
          (PcOf(ops'[s]) = "remote" /\ PcOf(ops[s]) # "remote") =>
            /\ PcOf(ops[s]) = "token"
            /\ issued' = "remote"
            /\ \E answer \in TokenAnswers :
                 /\ TokenResponse(s, answer)
                 /\ ~TokenUnavailable(answer)
                 /\ getAuthToken(answer) = Some(answer.token)
     /\ issued' = "remote" =>
          \E s \in DOMAIN ops : PcOf(ops'[s]) = "remote" /\ PcOf(ops[s]) = "token"]_vars

\* the request of a delete has just been sent, with the token the call obtained,
\* while the cache holds the list of an earlier read
C24_Witness ==
  /\ issued = "remote"
  /\ \E s \in DOMAIN ops : PcOf(ops[s]) = "remote" /\ ops[s].kind = "delete"
  /\ ~tasksCache.isNull
  /\ session

\* the cache holds no entry
NoEntry == tasksCache.isNull /\ cacheTimestamp.isNull

\* C25: a step that leaves another entry, or another timestamp, in the cache than
\* there was is the return of a list read with the list the store answered; the
\* return of a create, update, delete, complete or uncomplete leaves the cache as
\* it was or without an entry
C25_CacheNeverPatched ==
  [][/\ (<<tasksCache, cacheTimestamp>>' # <<tasksCache, cacheTimestamp>> /\ ~NoEntry') =>
          \E s \in DOMAIN ops :
            /\ PcOf(ops[s]) = "remote"
            /\ ops[s].kind = "list"
            /\ \E resp \in StoreAnswers(ops[s]) :
                 /\ ReceiveSuccess(s, resp)
                 /\ tasksCache' = Some(resp.body.list)
     /\ \A s \in DOMAIN ops :
          (PcOf(ops[s]) # "idle" /\ ops[s].kind \in Mutations /\ PcOf(ops'[s]) = "idle") =>
            UNCHANGED <<tasksCache, cacheTimestamp>> \/ NoEntry']_vars

\* a create returned its new task while the cache held a list: the entry is gone
C25_Witness ==
  /\ ReturnedOk
  /\ returned.kind = "create"
  /\ returned.value.kind = "task"
  /\ returned.hadCache
  /\ NoEntry

\* a mutation that the store has carried out has not returned yet
MutationUnderWay ==
  \E s \in DOMAIN ops :
    PcOf(ops[s]) = "remote" /\ ops[s].kind \in Mutations /\ answers[s] # NoAnswer

\* C26: with this client as the only writer, once every mutation the store
\* carried out has returned, the cache holds no list of before it: its entry, if
\* it has one, is the list of the store, also when a list read was in flight
\* while the mutation completed
C26_NoStaleEntryAfterMutation ==
  (~tasksCache.isNull /\ ~MutationUnderWay) => tasksCache.val = store

\* C28: whatever the order in which the dashboard's fetches and creates are
\* answered, with a store that gives every task an id of its own, no two
\* elements of the page's list have the same id
C28_NoDuplicateIds ==
  \A i, j \in DOMAIN tasks : tasks[i].id = tasks[j].id => i = j

\* a logout has invalidated the cache and the session it ended has no successor
LoggedOut == ~session /\ \E e \in LogoutEntryPoints : LogoutDid(e, "cache")

\* C27: once a logout has invalidated the cache and the session is over, the
\* cache stays empty as long as no later session exists, also when a list read
\* was in flight when the logout ran
C27_LoggedOutCacheStaysEmpty ==
  [][(LoggedOut /\ NoEntry) => NoEntry']_vars

\* C29: when the create, update, delete or toggle of a handler fails, at the token
\* request or at the store, the list of the page is as it was, the handler emits
\* one notification, an error with the message of the failure, and throws the
\* error it caught to the component that called it
C29_FailedMutationKeepsList ==
  [][\A s \in DOMAIN ops :
       (/\ PcOf(ops[s]) # "idle"
        /\ PcOf(ops'[s]) = "idle"
        /\ ops[s].caller \in Handlers
        /\ returned' # NoReturn
        /\ returned'.outcome = "throw") =>
         /\ UNCHANGED tasks
         /\ returned'.toasts = <<Toast("error", returned'.err.message)>>
         /\ returned'.handed = Thrown(returned'.err)]_vars

\* the delete of a task of a list of two was refused by the store
C29_Witness ==
  /\ ReturnedThrow
  /\ returned.caller = "handleDeleteTask"
  /\ returned.err.code = "NOT_FOUND"
  /\ Len(tasks) = 2
  /\ \E i \in DOMAIN tasks : tasks[i].id = 2

\* C30: when a list read or a mutation fails, for want of a token, with a
\* non-success answer of the store or with a rejected fetch, the cache entry and
\* its timestamp are what they were before the call returned: a failed forced
\* refresh keeps the entry, a failed mutation does not invalidate it
C30_FailureKeepsCache ==
  [][(returned' # NoReturn /\ returned'.outcome = "throw") =>
       /\ UNCHANGED <<tasksCache, cacheTimestamp>>
       /\ returned'.hadCache = ~tasksCache'.isNull]_vars

\* a forced list read was refused by the store while the cache held an entry,
\* and the entry is still there
C30_Witness ==
  /\ ReturnedThrow
  /\ returned.kind = "list"
  /\ returned.err.name = "ApiRequestError"
  /\ returned.err.code = "UNKNOWN"
  /\ returned.hadCache
  /\ ~tasksCache.isNull
  /\ ~cacheTimestamp.isNull

\* C31: in every state the cached list and the timestamp of its fetch are both
\* absent or both present, whatever the order in which reads, mutations and a
\* logout's invalidation take their steps
C31_EntryAtomicity == tasksCache.isNull <=> cacheTimestamp.isNull

\* a list read has just stored its entry in a cache that held none, while the
\* request of a create is at the store
C31_Witness ==
  /\ ReturnedOk
  /\ returned.kind = "list"
  /\ ~returned.fromCache
  /\ ~returned.hadCache
  /\ ~tasksCache.isNull
  /\ ~cacheTimestamp.isNull
  /\ lastRead # Null
  /\ \E s \in DOMAIN ops : PcOf(ops[s]) = "remote" /\ ops[s].kind = "create"

----------------------------------------------------------------------------
(* C32 *)

\* a step in which the item calls onUpdate, onDelete or onToggleComplete
ItemCallbackStarts == itemInFlight' # itemInFlight /\ itemInFlight \subseteq itemInFlight'
\* a step in which the create form calls onSubmit
FormCallbackStarts == formEvent'.by = "TaskForm" /\ formEvent'.what = "submitted"

\* C32: the item calls one of its three callbacks only while none of them is
\* awaited, and has its controls disabled from that step on for as long as the
\* callback is awaited; the create form calls onSubmit only while no earlier
\* call of it is awaited, and is disabled for as long as one is.
C32_OneMutationPerControl ==
  [][ /\ ItemCallbackStarts => itemInFlight = {} /\ itemDisabled'
      /\ FormCallbackStarts => ~formSubmitting /\ formDisabled'
      /\ itemInFlight' # {} => itemDisabled'
      /\ formSubmitting' => formDisabled' ]_vars

\* the item has just called onDelete, after a toggle of it has settled, while
\* the create form awaits its create
C32_Witness ==
  /\ itemInFlight = {"delete"}
  /\ itemDisabled
  /\ itemCompleted
  /\ formSubmitting
  /\ formDisabled
  /\ formEvent.what = "delete"
----------------------------------------------------------------------------
(* C33 *)

\* a step in which the update or the toggle of task taskId, awaited by its
\* handler in slot s, settles
LateAnswer(s, taskId) ==
  /\ PcOf(ops[s]) # "idle"
  /\ ops'[s] = Idle
  /\ ops[s].caller \in UpdatingHandlers
  /\ ops[s].id = taskId

\* C33: when the update or toggle of a task settles, with an answered task or
\* with a failure, while the list of the page does not hold the task (its
\* delete was applied before), the list stays as it is: the task is not put
\* back and no other task changes.
C33_NoResurrection ==
  [][\A s \in DOMAIN ops, taskId \in LateIds :
       LateAnswer(s, taskId) /\ ~InList(taskId) => tasks' = tasks]_vars

\* the update of task 1 has just returned the updated task to its handler,
\* after the delete of task 1 was applied to the list; the store has dropped
\* the task, the list holds the other task only
C33_Witness ==
  /\ ReturnedOk
  /\ returned.caller = "handleUpdateTask"
  /\ returned.value.task.id = 1
  /\ ~InList(1)
  /\ ~HasTask(store, 1)
  /\ tasks = <<Task(2, "b", FALSE)>>
----------------------------------------------------------------------------
(* C34 *)

\* a step in which the API call that caller awaits in slot s settles
CallSettles(s, caller) ==
  /\ PcOf(ops[s]) # "idle"
  /\ ops'[s] = Idle
  /\ ops[s].caller = caller
InFlightBy(caller) == \E s \in DOMAIN ops : PcOf(ops[s]) # "idle" /\ ops[s].caller = caller

\* C34: on the page that is shown, the step in which a fetch settles (with a
\* list, with a failure that is shown, or with the failure that sends to the
\* login view) leaves isLoading false, and the step in which a create settles
\* leaves isCreating false; once the session was delivered and no fetch is in
\* flight isLoading is false, and while no create is in flight isCreating is.
C34_FlagsSettle ==
  /\ [][\A s \in DOMAIN ops :
          /\ CallSettles(s, "fetchTasks") /\ route = "dashboard" => ~isLoading'
          /\ CallSettles(s, "handleCreateTask") /\ route = "dashboard" => ~isCreating']_vars
  /\ [](PageShown /\ ~InFlightBy("fetchTasks") => ~isLoading)
  /\ [](route = "dashboard" /\ ~InFlightBy("handleCreateTask") => ~isCreating)

\* the fetch has just failed with a failure that is shown, while a create is
\* in flight: isLoading is false, isCreating still true
C34_Witness ==
  /\ ReturnedThrow
  /\ returned.caller = "fetchTasks"
  /\ route = "dashboard"
  /\ ~error.isNull
  /\ ~isLoading
  /\ isCreating
  /\ InFlightBy("handleCreateTask")
----------------------------------------------------------------------------
(* C35 *)

\* a step in which a handleSubmit that passed validation returns
SubmitReturns == authEvent' = "settled" /\ signing' + verifying' < signing + verifying
\* a submit event that the validation of the two fields turns down
SubmitTurnedDown ==
  Submit /\ ~SubmitSuppressed /\ ~(validateEmail(email) /\ validatePassword(password))

\* C35: when a handleSubmit that passed validation returns (the provider
\* answered with an error, the call threw, the session verification failed, or
\* the form went on to the dashboard), submittingRef and loading are false;
\* whenever no submission is in flight both are false; and a submit event that
\* validation turns down sets neither of them and sends no request.
C35_GuardReleased ==
  /\ [][SubmitReturns => ~submittingRef' /\ ~loading']_vars
  /\ [](signing + verifying = 0 => ~submittingRef /\ ~loading)
  /\ [][SubmitTurnedDown =>
          /\ authEvent' = "invalid"
          /\ ~submittingRef' /\ ~loading'
          /\ UNCHANGED <<submittingRef, loading, signing, verifying, session, route>>]_vars

\* the session verification of a login has just failed: the message is shown,
\* nothing is in flight, the guard and loading are released
C35_Witness ==
  /\ authEvent = "settled"
  /\ authError = Some("Login succeeded but session creation failed. Please try again.")
  /\ signing + verifying = 0
  /\ ~submittingRef
  /\ ~loading
  /\ route = "login"
----------------------------------------------------------------------------
(* C36 *)

\* the answers of the token request that carry a token
AnswersWithToken ==
  {answer \in TokenAnswers :
     answer.kind # "rejected" /\ answer.ok /\ answer.parses /\ answer.token # Undefined}

\* C36: the form goes to the dashboard only in the step in which the token
\* request of a submission, sent after signIn.email / signUp.email reported
\* success, is answered with a token; when the sign request ends with an error
\* or by throwing, or the token request is answered without a token, the route
\* stays as it is and a message is shown.
C36_NavigationNeedsToken ==
  [][ /\ route' # route =>
           /\ route' = "dashboard"
           /\ verifying > 0
           /\ \E answer \in AnswersWithToken : VerifySettles(answer)
      /\ (\E outcome \in SignFailures : SignSettles(outcome)) =>
           route' = route /\ ~authError'.isNull
      /\ (\E answer \in TokenAnswers \ AnswersWithToken : VerifySettles(answer)) =>
           route' = route /\ ~authError'.isNull ]_vars

\* a signup has just gone to the dashboard: the provider made the session, the
\* token request was answered with a token, no message is shown
C36_Witness ==
  /\ authMode = "signup"
  /\ authEvent = "settled"
  /\ route = "dashboard"
  /\ session
  /\ authError.isNull
  /\ signing + verifying = 0
----------------------------------------------------------------------------
(* C37 *)

\* a step in which the onSubmit that the create form awaits settles
FormCallbackSettles == formSubmitting /\ ~formSubmitting'
FieldsKept == formTitle' = formTitle /\ formDescription' = formDescription
FieldsCleared == formTitle' = <<>> /\ formDescription' = <<>>
FormTyping ==
  \/ \E text \in TitleTexts : setTitle(text)
  \/ \E text \in DescriptionTexts : setDescription(text)

\* C37: a submit whose title fails validation keeps both fields and sets the
\* validation message; when the awaited onSubmit settles, either it raised,
\* both fields keep their values and the error state is set to a message, or it
\* succeeded, both fields are cleared and no message is set; and apart from the
\* user's typing no other step changes a field.
C37_FieldsKeptOnFailure ==
  [][ /\ (TaskFormSubmit /\ ~TitleAccepted(formTitle)) =>
           FieldsKept /\ formError' \in TitleMessages
      /\ FormCallbackSettles =>
           \/ FieldsKept /\ ~formError'.isNull /\ formTitle # <<>>
           \/ FieldsCleared /\ formError'.isNull
      /\ ~FieldsKept => FormTyping \/ (FormCallbackSettles /\ formError'.isNull) ]_vars

\* the create has just raised: the form shows the message of the error and
\* still holds the title and the description that were submitted
C37_Witness ==
  /\ formEvent.by = "TaskForm"
  /\ formEvent.what = "settled"
  /\ formError = Some(CallbackMessage)
  /\ formTitle = Spaces(1) \o Chars(MaxTitleLength) \o Spaces(1)
  /\ formDescription = <<" ", "d">>
  /\ ~formSubmitting
====
